---- MODULE Spec2Model ----
(***************************************************************************)
(* A model of the weaver ECS core: the archetype table, the world that     *)
(* routes entities into archetypes, the Read/Write queries with their      *)
(* borrow-intent tracker and component locks, and the id Registry.         *)
(***************************************************************************)
EXTENDS Integers, Sequences, FiniteSets, TLC

VARIABLES
    next_entity,          \* NEXT_ID, the entity id handed out by the next spawn
    entities_components,  \* World::entities_components: entity -> its component types
    archetypes,           \* the world's archetype tables
    borrow_intent,        \* World::borrow_intent: slot -> outstanding intents
    locks,                \* the RwLock of every component: slot -> holders
    queries,              \* the live query objects, oldest first
    last,                 \* the last operation and how it ended
    released,             \* the component types whose guards a dropped query gave back
    got,                  \* the last query.get: the entity asked for and the answer
    registry,             \* the world's Registry: next_id, static_ids, named_ids
    issued,               \* per type, the ids its get_static calls returned, in call order
    issued_named,         \* per name, the ids its get_named calls returned, in call order
    race_comp,            \* the component type two threads build Write queries over
    threads,              \* per thread: where it is in Write::new and what it holds
    other,                \* the Registry made by split(), next_id 0 before any split
    minted,               \* the ids the primary registry has minted so far
    gen_slots,            \* entity index -> generation, alive flag and stored value
    gen_free,             \* the entity indices freed by despawn
    gen_issued,           \* the entity handles spawn has returned, in order
    gen_dead,             \* the entity handles that were despawned
    gen_last,             \* the last entity operation: handle, outcome and value read
    components,           \* Components::data: entity -> its components, in push order
    comp_last,            \* the last Components operation; for an add, and for the
                          \* remove that undoes it, the entity's list before the add
    systems,              \* World::systems: the registered systems, in push order
    poisoned,             \* the systems whose Mutex a panic inside run has poisoned
    update,               \* World::update in progress: the cloned list, the position,
                          \* the systems run so far and the locks found poisoned
    app_threads,          \* App::run: per thread, the stages still to run in this
                          \* pass, the stage and system it is in, and its mode
    app_active,           \* the systems executing right now, with their thread
    stage_log,            \* the stages of the tick order begun so far, in order
    killswitch,           \* a message is waiting in the killswitch channel
    excl_stage,           \* the stage EditorActions is registered to
    bundle_prev,          \* the Bundle id list computed before the last one
    bundle_last,          \* the last Bundle id list: the impl, the field order, the ids
    iter,                 \* query.iter() in progress: the items still to come, the item held, the items yielded
    iter_runs,            \* the item sequences of the completed iter() calls on the live query
    lazy_cells,           \* the shared status cells of the LazyGpuHandles, one per Rc
    lazy_names,           \* the LazyGpuHandle values, each the index of the cell it points to
    gpu_resources,        \* GpuResourceManager: handle id -> status of the GpuHandle
    lazy_first,           \* per cell, the id its first successful lazy_init returned
    lazy_last,            \* the last LazyGpuHandle operation and its result
    gs_threads,           \* per thread: where it is in get_static, its type and the id it holds
    gs_cells,             \* the AtomicRefCells of static_ids and named_ids: readers and writer
    winit,                \* WinitRunner::run: its position, the stages run, its result
    editor,               \* EditorState: names, rename buffer, actions in progress, both histories
    editor_last,          \* the last undo or redo call and its result
    renderer,             \* Renderer: current frame, queued command buffers, what the queue and the surface saw
    renderer_last,        \* the last Renderer call
    egui,                 \* EguiContext: pending output, lock, and the calls made on it
    assets,               \* AssetServer: next_id, ids, and the asset maps
    asset_last,           \* the last load call and its outcome
    type_registry,        \* TypeRegistry: the registered types and their auxiliary data
    type_data_last        \* the last TypeRegistry call and what it returned

worldVars == <<next_entity, entities_components, archetypes, borrow_intent, locks>>
queryVars == <<queries, last, released, got>>
regVars == <<registry, issued, issued_named>>
raceVars == <<race_comp, threads>>
mergeVars == <<other, minted>>
genVars == <<gen_slots, gen_free, gen_issued, gen_dead, gen_last>>
compVars == <<components, comp_last>>
sysVars == <<systems, poisoned, update>>
appVars == <<app_threads, app_active, stage_log, killswitch, excl_stage>>
bundleVars == <<bundle_prev, bundle_last>>
iterVars == <<iter, iter_runs>>
gpuVars == <<lazy_cells, lazy_names, gpu_resources, lazy_first, lazy_last>>
regRaceVars == <<gs_threads, gs_cells>>
winitVars == <<winit>>
editorVars == <<editor, editor_last>>
rendererVars == <<renderer, renderer_last>>
eguiVars == <<egui>>
assetVars == <<assets, asset_last>>
typeDataVars == <<type_registry, type_data_last>>
laterVars == <<mergeVars, genVars, compVars, sysVars, appVars, bundleVars, iterVars, gpuVars, regRaceVars, winitVars, editorVars, rendererVars, eguiVars, assetVars, typeDataVars>>
\* What the actions of one subsystem leave alone in the others.
EcsFrame == UNCHANGED <<raceVars, laterVars>>
QueryFrame == UNCHANGED <<regVars, raceVars, laterVars>>
RegistryFrame == UNCHANGED <<worldVars, queryVars, raceVars, laterVars>>
RaceFrame == UNCHANGED <<queryVars, regVars, laterVars>>

(***************************************************************************)
(* Bounds                                                                  *)
(***************************************************************************)
MaxBorrowEntities == 2
MaxQueries == 2
MaxEntities == 4
MaxWorldEntities == 2
MaxMinted == 3
MaxCalls == 2
MaxRaceEntities == 2
MaxMergeMinted == 2
MaxGenSpawns == 4
MaxGenIndices == 2
MaxCompEntities == 2
MaxComponents == 3
MaxSystems == 3
MaxStageLog == 7
MaxBundleFields == 2
MaxIterEntities == 2
MaxIterRuns == 2
MaxLazyCells == 2
MaxLazyHandles == 3
MaxGpuResources == 3

(***************************************************************************)
(* Component types and bundles of the crate's tests                        *)
(***************************************************************************)
Comps == {"A", "B", "C"}

TestBundles == {{"A", "B", "C"}, {"A", "B"}, {"A", "C"}}

BenchBundles == {{"A"}}

Bundles == TestBundles \cup BenchBundles

\* A type name is modelled by its "::"-separated segments.
TypeName(c) == <<"weaver_ecs", "tests", c>>

Min(S) == CHOOSE x \in S : \A y \in S : x <= y

EmptyMap == [x \in {} |-> x]

MapPut(m, k, v) == [x \in DOMAIN m \cup {k} |-> IF x = k THEN v ELSE m[x]]

MapDrop(m, ks) == [x \in DOMAIN m \ ks |-> m[x]]

(***************************************************************************)
(* Registry: dynamic ids of types and names                                *)
(***************************************************************************)
BuiltinTypes ==
    << <<"()">>, <<"bool">>, <<"u8">>, <<"u16">>, <<"u32">>, <<"u64">>,
       <<"u128">>, <<"usize">>, <<"i8">>, <<"i16">>, <<"i32">>, <<"i64">>,
       <<"i128">>, <<"isize">>, <<"f32">>, <<"f64">>,
       <<"alloc", "string", "String">> >>

\* type_name split at "::", the last segment; the whole name when that is empty.
StaticName(T) ==
    LET name == T[Len(T)]
    IN  IF name = "" THEN T ELSE <<name>>

\* fetch_add(1) on the u32 counter; the model's guards keep it far below
\* the value at which a u32 wraps.
RegistryCreate(r) ==
    [reg |-> [r EXCEPT !.next_id = @ + 1], id |-> r.next_id]

GetStaticAlwaysMints(r, T) ==
    LET c == RegistryCreate(r)
    IN  [reg |-> [c.reg EXCEPT !.static_ids = MapPut(@, T, c.id),
                               !.named_ids = MapPut(@, StaticName(T), c.id)],
         id |-> c.id]

GetStatic(r, T) ==
    IF T \in DOMAIN r.static_ids
    THEN [reg |-> r, id |-> r.static_ids[T]]
    ELSE LET c == RegistryCreate(r)
         IN  [reg |-> [c.reg EXCEPT !.static_ids = MapPut(@, T, c.id),
                                    !.named_ids = MapPut(@, StaticName(T), c.id)],
              id |-> c.id]

GetNamed(r, name) ==
    IF name \in DOMAIN r.named_ids
    THEN [reg |-> r, id |-> r.named_ids[name]]
    ELSE LET c == RegistryCreate(r)
         IN  [reg |-> [c.reg EXCEPT !.named_ids = MapPut(@, name, c.id)],
              id |-> c.id]

\* split: the counter is loaded and both maps are cloned.
SplitFresh(r) == [next_id |-> 1, static_ids |-> EmptyMap, named_ids |-> EmptyMap]

Split(r) ==
    [next_id |-> r.next_id, static_ids |-> r.static_ids, named_ids |-> r.named_ids]

\* HashMap::extend: every entry of o is inserted, replacing an entry of m
\* under the same key.
MapExtend(m, o) ==
    [x \in DOMAIN m \cup DOMAIN o |-> IF x \in DOMAIN o THEN o[x] ELSE m[x]]

\* merge: the counter of s is stored, then both maps are extended with s's.
Merge(r, s) ==
    [next_id |-> s.next_id,
     static_ids |-> MapExtend(r.static_ids, s.static_ids),
     named_ids |-> MapExtend(r.named_ids, s.named_ids)]

RECURSIVE RegisterAll(_, _)
RegisterAll(r, types) ==
    IF types = <<>> THEN r
    ELSE RegisterAll(GetStatic(r, Head(types)).reg, Tail(types))

RegistryNew ==
    RegisterAll([next_id |-> 1, static_ids |-> EmptyMap, named_ids |-> EmptyMap],
                BuiltinTypes)

\* The order in which the test bundles list their component types.
FieldOrder == <<"A", "B", "C">>

BundleFields(cs) == SelectSeq(FieldOrder, LAMBDA c : c \in cs)

\* Bundle::component_types: the bundle's field types, registered in field order.
RegisterBundle(r, cs) ==
    RegisterAll(r, [i \in DOMAIN BundleFields(cs) |-> TypeName(BundleFields(cs)[i])])

(***************************************************************************)
(* Archetype                                                               *)
(***************************************************************************)
ArchetypeNew == [components |-> {}, component_names |-> EmptyMap, entities |-> {}]

InsertComponent(a, c) ==
    [a EXCEPT !.components = @ \cup {c},
              !.component_names = MapPut(@, c, TypeName(c))]

InsertEntity(a, e) == [a EXCEPT !.entities = @ \cup {e}]

RemoveEntityKeeps(a, e) == a

\* A removal that also forgets the archetype's component set.
RemoveEntityClears(a, e) ==
    [a EXCEPT !.entities = @ \ {e}, !.components = {}, !.component_names = EmptyMap]

RemoveEntity(a, e) == [a EXCEPT !.entities = @ \ {e}]

ContainsEntity(a, e) == e \in a.entities

ContainsComponentOfAny(a, c) == a.components # {}

ContainsComponent(a, c) == c \in a.components

ContainsAnyComponent(a, cs) == cs = {} \/ a.components \cap cs # {}

ContainsComponents(a, cs) == cs \subseteq a.components

(***************************************************************************)
(* World: spawn, despawn, add_component, remove_component                  *)
(***************************************************************************)
RECURSIVE ArchetypeWith(_)
ArchetypeWith(cs) ==
    IF cs = {} THEN ArchetypeNew
    ELSE LET c == CHOOSE x \in cs : TRUE
         IN  InsertComponent(ArchetypeWith(cs \ {c}), c)

\* The archetype whose component set is exactly cs, created when missing.
FindOrCreate(as, cs) ==
    IF \E a \in as : a.components = cs
    THEN CHOOSE a \in as : a.components = cs
    ELSE ArchetypeWith(cs)

\* The entity e enters the archetype of cs.
Route(as, e, cs) ==
    LET a == FindOrCreate(as, cs)
    IN  (as \ {a}) \cup {InsertEntity(a, e)}

\* The entity e leaves every archetype that holds it.
Unroute(as, e) ==
    {IF ContainsEntity(a, e) THEN RemoveEntity(a, e) ELSE a : a \in as}

Idle == [readers |-> 0, writer |-> FALSE]

SlotsOf(e, cs) == {<<e, c>> : c \in cs}

\* The slot map m with exactly the slots of cs for entity e, old slots kept.
Reslot(m, e, cs) ==
    [s \in {x \in DOMAIN m : x[1] # e} \cup SlotsOf(e, cs) |->
        IF s \in DOMAIN m THEN m[s] ELSE Idle]

AllocEntity == next_entity

\* A query shape: where it comes from, what it reads and writes, its filters.
NoShape == [origin |-> "none", parts |-> <<>>, with |-> {}, without |-> {}]

Done(op) == [op |-> op, shape |-> NoShape, outcome |-> "ok"]

Spawn(bundle, maxEntities) ==
    /\ next_entity < maxEntities
    /\ queries = <<>>
    /\ LET e == AllocEntity IN
        /\ next_entity' = next_entity + 1
        /\ entities_components' = MapPut(entities_components, e, bundle)
        /\ archetypes' = Route(archetypes, e, bundle)
        /\ borrow_intent' = Reslot(borrow_intent, e, bundle)
        /\ locks' = Reslot(locks, e, bundle)
        /\ registry' = RegisterBundle(registry, bundle)
        /\ last' = Done("world")
        /\ released' = {}
    /\ UNCHANGED <<queries, got, issued, issued_named>>

Despawn(e) ==
    /\ e \in DOMAIN entities_components
    /\ queries = <<>>
    /\ entities_components' = MapDrop(entities_components, {e})
    /\ archetypes' = Unroute(archetypes, e)
    /\ borrow_intent' = MapDrop(borrow_intent, SlotsOf(e, Comps))
    /\ locks' = MapDrop(locks, SlotsOf(e, Comps))
    /\ last' = Done("world")
    /\ released' = {}
    /\ UNCHANGED <<next_entity, queries, got, regVars>>

\* The entity e moves to the archetype of its new component set cs.
MoveEntity(e, cs) ==
    /\ entities_components' = [entities_components EXCEPT ![e] = cs]
    /\ archetypes' = Route(Unroute(archetypes, e), e, cs)
    /\ borrow_intent' = Reslot(borrow_intent, e, cs)
    /\ locks' = Reslot(locks, e, cs)

AddComponent(e, c) ==
    /\ e \in DOMAIN entities_components
    /\ queries = <<>>
    /\ MoveEntity(e, entities_components[e] \cup {c})
    /\ last' = Done("world")
    /\ released' = {}
    /\ UNCHANGED <<next_entity, queries, got, regVars>>

RemoveComponent(e, c) ==
    /\ e \in DOMAIN entities_components
    /\ queries = <<>>
    /\ MoveEntity(e, entities_components[e] \ {c})
    /\ last' = Done("world")
    /\ released' = {}
    /\ UNCHANGED <<next_entity, queries, got, regVars>>

(***************************************************************************)
(* Borrow-intent tracker: per slot, the readers and the writer announced   *)
(***************************************************************************)
TryRead(bi, slot) ==
    IF slot \notin DOMAIN bi THEN "None"
    ELSE IF bi[slot].writer THEN "Err" ELSE "Ok"

TryWrite(bi, slot) ==
    IF slot \notin DOMAIN bi THEN "None"
    ELSE IF bi[slot].writer \/ bi[slot].readers > 0 THEN "Err" ELSE "Ok"

IntendRead(bi, slot) == [bi EXCEPT ![slot].readers = @ + 1]

IntendWrite(bi, slot) == [bi EXCEPT ![slot].writer = TRUE]

ReleaseOne(kind, st) ==
    IF kind = "Read" THEN [st EXCEPT !.readers = @ - 1]
    ELSE [st EXCEPT !.writer = FALSE]

\* The intents of the slots in held, taken by a query of this kind, end.
ReleaseIntents(kind, held, bi) ==
    [s \in DOMAIN bi |-> IF s \in held THEN ReleaseOne(kind, bi[s]) ELSE bi[s]]

(***************************************************************************)
(* Component locks: component.read() and component.write()                 *)
(***************************************************************************)
\* A lock whose read side admits one holder only.
CanLockReadAlone(lk, slot) == ~lk[slot].writer /\ lk[slot].readers = 0

CanLockRead(lk, slot) == ~lk[slot].writer

CanLockWrite(lk, slot) == ~lk[slot].writer /\ lk[slot].readers = 0

LockRead(lk, slot) == [lk EXCEPT ![slot].readers = @ + 1]

LockWrite(lk, slot) == [lk EXCEPT ![slot].writer = TRUE]

UnlockGuardsLeaks(kind, held, lk) == lk

\* Dropping the entries of a query drops the lock guards they hold.
UnlockGuards(kind, held, lk) ==
    [s \in DOMAIN lk |-> IF s \in held THEN ReleaseOne(kind, lk[s]) ELSE lk[s]]

(***************************************************************************)
(* Read::new and Write::new: the fold over world.entities_components       *)
(***************************************************************************)
NewAcc(bi, lk) ==
    [intent |-> bi, locks |-> lk, entries |-> EmptyMap, status |-> "ok"]

Range(f) == {f[x] : x \in DOMAIN f}

\* A step that hands out a guard whatever the tracker answers.
ReadStepNoPanic(T, e, ec, acc) ==
    IF T \in ec[e]
    THEN [acc EXCEPT !.locks = LockRead(@, <<e, T>>),
                     !.entries = MapPut(@, e, <<e, T>>)]
    ELSE acc

\* A step that takes the guard and forgets to insert the entry.
ReadStepDropsEntry(T, e, ec, acc) ==
    IF T \in ec[e] /\ TryRead(acc.intent, <<e, T>>) = "Ok"
    THEN [acc EXCEPT !.intent = IntendRead(@, <<e, T>>),
                     !.locks = LockRead(@, <<e, T>>)]
    ELSE acc

ReadStep(T, e, ec, acc) ==
    IF T \in ec[e]
    THEN LET slot == <<e, T>>
             r == TryRead(acc.intent, slot)
         IN  CASE r = "Ok" ->
                    IF CanLockRead(acc.locks, slot)
                    THEN [acc EXCEPT !.intent = IntendRead(@, slot),
                                     !.locks = LockRead(@, slot),
                                     !.entries = MapPut(@, e, slot)]
                    ELSE [acc EXCEPT !.intent = IntendRead(@, slot),
                                     !.status = "blocked"]
               [] r = "Err" -> [acc EXCEPT !.status = "panic"]
               [] OTHER -> acc
    ELSE acc

WriteStepNoPanic(T, e, ec, acc) ==
    IF T \in ec[e]
    THEN [acc EXCEPT !.locks = LockWrite(@, <<e, T>>),
                     !.entries = MapPut(@, e, <<e, T>>)]
    ELSE acc

WriteStep(T, e, ec, acc) ==
    IF T \in ec[e]
    THEN LET slot == <<e, T>>
             r == TryWrite(acc.intent, slot)
         IN  CASE r = "Ok" ->
                    IF CanLockWrite(acc.locks, slot)
                    THEN [acc EXCEPT !.intent = IntendWrite(@, slot),
                                     !.locks = LockWrite(@, slot),
                                     !.entries = MapPut(@, e, slot)]
                    ELSE [acc EXCEPT !.intent = IntendWrite(@, slot),
                                     !.status = "blocked"]
               [] r = "Err" -> [acc EXCEPT !.status = "panic"]
               [] OTHER -> acc
    ELSE acc

\* The fold visits the entities es in ascending order and stops at a failure.
RECURSIVE ReadFold(_, _, _, _)
ReadFold(T, es, ec, acc) ==
    IF es = {} \/ acc.status # "ok" THEN acc
    ELSE LET e == Min(es)
         IN  ReadFold(T, es \ {e}, ec, ReadStep(T, e, ec, acc))

RECURSIVE WriteFold(_, _, _, _)
WriteFold(T, es, ec, acc) ==
    IF es = {} \/ acc.status # "ok" THEN acc
    ELSE LET e == Min(es)
         IN  WriteFold(T, es \ {e}, ec, WriteStep(T, e, ec, acc))

ReadNew(T, ec, bi, lk) == ReadFold(T, DOMAIN ec, ec, NewAcc(bi, lk))

WriteNew(T, ec, bi, lk) == WriteFold(T, DOMAIN ec, ec, NewAcc(bi, lk))

ReadEntities(part) == DOMAIN part.entries

\* Read::get and Write::get: the entry of the entity, when there is one.
None == [some |-> FALSE]

Some(v) == [some |-> TRUE, value |-> v]

ReadGetAny(part, entity) ==
    IF entity \in DOMAIN part.entries THEN Some(part.entries[entity])
    ELSE IF DOMAIN part.entries # {}
         THEN Some(part.entries[Min(DOMAIN part.entries)])
         ELSE None

ReadGet(part, entity) ==
    IF entity \in DOMAIN part.entries /\ part.entries[entity][2] = part.comp
    THEN Some(part.entries[entity])
    ELSE None

(***************************************************************************)
(* Query construction: single, tuple, filtered and dynamic                 *)
(***************************************************************************)
\* A part of a query: Read or Write, the component type, and for a dynamic
\* query the dynamic id it was built with (0 in a static query).
Part(kind, T) == [kind |-> kind, comp |-> T, id |-> 0]

Single(kind, T) ==
    [origin |-> "static", parts |-> <<Part(kind, T)>>,
     with |-> {}, without |-> {}]

ShapeComps(shape) == {shape.parts[i].comp : i \in DOMAIN shape.parts}

ShapeIds(shape) == {shape.parts[i].id : i \in DOMAIN shape.parts}

\* The archetype seen by a dynamic query: its component types as dynamic ids.
IdArchetype(a, reg) ==
    [a EXCEPT !.components = {reg.static_ids[TypeName(c)] : c \in @}]

\* The archetype-matching predicate of a filtered or dynamic query.
Matches(a, shape, reg) ==
    IF shape.origin = "dynamic"
    THEN ContainsComponents(IdArchetype(a, reg), ShapeIds(shape))
    ELSE /\ ContainsComponents(a, ShapeComps(shape))
         /\ \A c \in shape.with : ContainsComponent(a, c)
         /\ \A c \in shape.without : ~ContainsComponent(a, c)

MatchedEntities(as, shape, reg) ==
    UNION {a.entities : a \in {x \in as : Matches(x, shape, reg)}}

\* One part of a query takes its guards: over every entity for a static
\* query, over the entities of the matching archetypes otherwise.
PartNew(shape, p, ec, matched, bi, lk) ==
    IF shape.origin = "static"
    THEN IF p.kind = "Read" THEN ReadNew(p.comp, ec, bi, lk)
         ELSE WriteNew(p.comp, ec, bi, lk)
    ELSE IF p.kind = "Read"
         THEN ReadFold(p.comp, matched, ec, NewAcc(bi, lk))
         ELSE WriteFold(p.comp, matched, ec, NewAcc(bi, lk))

RECURSIVE BuildParts(_, _, _, _, _)
BuildParts(shape, i, ec, matched, st) ==
    IF i > Len(shape.parts) \/ st.status # "ok" THEN st
    ELSE LET p == shape.parts[i]
             acc == PartNew(shape, p, ec, matched, st.intent, st.locks)
             part == [kind |-> p.kind, comp |-> p.comp, entries |-> acc.entries]
         IN  BuildParts(shape, i + 1, ec, matched,
                 [intent |-> acc.intent, locks |-> acc.locks,
                  parts |-> Append(st.parts, part), status |-> acc.status])

\* The entities of a tuple query: those every member of the tuple holds.
TupleEntities(parts) ==
    IF parts = <<>> THEN {}
    ELSE {e \in ReadEntities(parts[1]) :
            \A i \in DOMAIN parts : e \in ReadEntities(parts[i])}

QueryEntities(shape, parts, matched) ==
    IF shape.origin = "static" THEN TupleEntities(parts) ELSE matched

Construct(shape, ec, as, reg, bi, lk) ==
    LET matched == IF shape.origin = "static" THEN DOMAIN ec
                   ELSE MatchedEntities(as, shape, reg)
        st == BuildParts(shape, 1, ec, matched,
                  [intent |-> bi, locks |-> lk, parts |-> <<>>, status |-> "ok"])
    IN  [intent |-> st.intent, locks |-> st.locks, status |-> st.status,
         query |-> [shape |-> shape, parts |-> st.parts,
                    entities |-> QueryEntities(shape, st.parts, matched)]]

\* Dropping query parts: the entries' lock guards and the intents end.
RECURSIVE DropParts(_, _, _)
DropParts(parts, bi, lk) ==
    IF parts = <<>> THEN [intent |-> bi, locks |-> lk]
    ELSE LET p == Head(parts)
         IN  DropParts(Tail(parts),
                 ReleaseIntents(p.kind, Range(p.entries), bi),
                 UnlockGuards(p.kind, Range(p.entries), lk))

\* query.get(entity): an item when every part of the query has the entity.
QueryGet(q, entity) ==
    IF /\ q.shape.origin = "static" \/ entity \in q.entities
       /\ \A i \in DOMAIN q.parts : ReadGet(q.parts[i], entity).some
    THEN Some([i \in DOMAIN q.parts |-> ReadGet(q.parts[i], entity).value])
    ELSE None

\* query.iter(): one item per entity of the query, in entity order.
RECURSIVE IterFrom(_, _)
IterFrom(q, es) ==
    IF es = {} THEN <<>>
    ELSE LET e == Min(es)
         IN  <<QueryGet(q, e)>> \o IterFrom(q, es \ {e})

QueryIter(q) == IterFrom(q, q.entities)

NoGot == [entity |-> -1, item |-> None]

RemoveAt(seq, i) == SubSeq(seq, 1, i - 1) \o SubSeq(seq, i + 1, Len(seq))

NewQuery(shape, maxQueries) ==
    /\ Len(queries) < maxQueries
    /\ LET r == Construct(shape, entities_components, archetypes, registry,
                          borrow_intent, locks)
           u == DropParts(r.query.parts, r.intent, r.locks)
       IN  /\ IF r.status = "ok"
              THEN /\ queries' = Append(queries, r.query)
                   /\ borrow_intent' = r.intent
                   /\ locks' = r.locks
              ELSE /\ queries' = queries
                   /\ borrow_intent' = u.intent
                   /\ locks' = u.locks
           /\ last' = [op |-> "query", shape |-> shape, outcome |-> r.status]
    /\ UNCHANGED <<next_entity, entities_components, archetypes, released, got>>

DropQuery(i, track) ==
    /\ i \in 1..Len(queries)
    /\ LET u == DropParts(queries[i].parts, borrow_intent, locks)
       IN  /\ borrow_intent' = u.intent
           /\ locks' = u.locks
    /\ queries' = RemoveAt(queries, i)
    /\ last' = Done("drop")
    /\ released' = IF track THEN released \cup ShapeComps(queries[i].shape)
                   ELSE released
    /\ got' = NoGot
    /\ UNCHANGED <<next_entity, entities_components, archetypes>>

\* query.get(entity) on the i-th live query.
GetQuery(i, entity) ==
    /\ i \in 1..Len(queries)
    /\ got' = [entity |-> entity, item |-> QueryGet(queries[i], entity)]
    /\ last' = [op |-> "get", shape |-> queries[i].shape, outcome |-> "ok"]
    /\ UNCHANGED <<worldVars, queries, released>>

(***************************************************************************)
(* Two threads in Write::new over one world: each thread visits the        *)
(* entities in order and, per entity, first asks the tracker (try_write)   *)
(* and then takes the component lock (component.write())                   *)
(***************************************************************************)
Threads == {1, 2}

IdleThread == [pc |-> "idle", todo |-> {}, entries |-> EmptyMap]

\* A match on the tracker's answer that treats a refusal like a grant.
WriteArmNoPanic(r) == IF r = "None" THEN "skip" ELSE "insert"

\* The arm Write::new takes on the tracker's answer.
WriteArm(r) ==
    CASE r = "Ok" -> "insert"
      [] r = "Err" -> "panic"
      [] OTHER -> "skip"

StartRace(T) ==
    /\ \A t \in Threads : threads[t].pc = "idle"
    /\ race_comp = "-"
    /\ race_comp' = T
    /\ threads' = [t \in Threads |->
                      [pc |-> "try", todo |-> DOMAIN entities_components,
                       entries |-> EmptyMap]]
    /\ UNCHANGED worldVars
    /\ RaceFrame

\* The thread reaches the next entity: the component lookup and try_write.
RaceTry(t) ==
    /\ threads[t].pc = "try"
    /\ IF threads[t].todo = {}
       THEN /\ threads' = [threads EXCEPT ![t].pc = "done"]
            /\ UNCHANGED <<borrow_intent, locks>>
       ELSE LET e == Min(threads[t].todo)
                slot == <<e, race_comp>>
                arm == IF race_comp \in entities_components[e]
                       THEN WriteArm(TryWrite(borrow_intent, slot))
                       ELSE "skip"
                held == Range(threads[t].entries)
            IN  CASE arm = "insert" ->
                       /\ borrow_intent' = IntendWrite(borrow_intent, slot)
                       /\ threads' = [threads EXCEPT ![t].pc = "lock"]
                       /\ UNCHANGED locks
                  [] arm = "panic" ->
                       /\ borrow_intent' = ReleaseIntents("Write", held, borrow_intent)
                       /\ locks' = UnlockGuards("Write", held, locks)
                       /\ threads' = [threads EXCEPT ![t].pc = "panicked",
                                                     ![t].entries = EmptyMap]
                  [] OTHER ->
                       /\ threads' = [threads EXCEPT ![t].todo = @ \ {e}]
                       /\ UNCHANGED <<borrow_intent, locks>>
    /\ UNCHANGED <<next_entity, entities_components, archetypes, race_comp>>
    /\ RaceFrame

\* component.write(): the thread waits until the lock is free, then holds it.
RaceLock(t) ==
    /\ threads[t].pc = "lock"
    /\ LET e == Min(threads[t].todo)
           slot == <<e, race_comp>>
       IN  /\ CanLockWrite(locks, slot)
           /\ locks' = LockWrite(locks, slot)
           /\ threads' = [threads EXCEPT ![t].pc = "try",
                                         ![t].todo = @ \ {e},
                                         ![t].entries = MapPut(@, e, slot)]
    /\ UNCHANGED <<next_entity, entities_components, archetypes, borrow_intent,
                   race_comp>>
    /\ RaceFrame

RaceStep(t) == RaceTry(t) \/ RaceLock(t)

InitWorld ==
    /\ next_entity = 0
    /\ entities_components = EmptyMap
    /\ archetypes = {}
    /\ borrow_intent = EmptyMap
    /\ locks = EmptyMap

InitQueries ==
    /\ queries = <<>>
    /\ last = Done("new")
    /\ released = {}
    /\ got = NoGot

InitRegistry ==
    /\ registry = RegistryNew
    /\ issued = EmptyMap
    /\ issued_named = EmptyMap

InitRace ==
    /\ race_comp = "-"
    /\ threads = [t \in Threads |-> IdleThread]

NoRegistry == [next_id |-> 0, static_ids |-> EmptyMap, named_ids |-> EmptyMap]

InitMerge ==
    /\ other = NoRegistry
    /\ minted = {}

NoHandle == [index |-> -1, generation |-> 0]

GenDone(op, h, outcome, v) == [op |-> op, handle |-> h, outcome |-> outcome, value |-> v]

InitGen ==
    /\ gen_slots = EmptyMap
    /\ gen_free = {}
    /\ gen_issued = <<>>
    /\ gen_dead = {}
    /\ gen_last = GenDone("new", NoHandle, "ok", 0)

CompDone(op, e, T, before) == [op |-> op, entity |-> e, type |-> T, before |-> before]

InitComponents ==
    /\ components = EmptyMap
    /\ comp_last = CompDone("new", -1, "-", <<>>)

NoUpdate == [pc |-> "idle", list |-> <<>>, i |-> 1, ran |-> <<>>, skipped |-> {}]

InitSystems ==
    /\ systems = <<>>
    /\ poisoned = {}
    /\ update = NoUpdate

\* The stages the update thread runs in every turn of its loop.
UpdateStages == <<"PreUpdate", "Update", "PostUpdate">>

\* The stages the event loop runs on RedrawRequested.
RedrawStages == <<"Ui", "PreRender", "Render", "PostRender">>

AppThread(mode, plan) ==
    [mode |-> mode, plan |-> plan, stage |-> "-", todo |-> <<>>, running |-> "-"]

\* App::run after run_systems(Startup): the update thread enters its loop
\* and the event loop waits for events.
AppThreadsAtStart ==
    [t \in {"update", "event"} |->
        IF t = "update" THEN AppThread("loop", UpdateStages)
        ELSE AppThread("wait", <<>>)]

InitApp ==
    /\ app_threads = AppThreadsAtStart
    /\ app_active = {}
    /\ stage_log = <<>>
    /\ killswitch = FALSE
    /\ excl_stage = "-"

NoBundle == [impl |-> "-", fields |-> <<>>, ids |-> <<>>]

InitBundle ==
    /\ bundle_prev = NoBundle
    /\ bundle_last = NoBundle

NoIter == [pc |-> "idle", k |-> 1, held |-> {}, yielded |-> <<>>]

InitIter ==
    /\ iter = NoIter
    /\ iter_runs = <<>>

NoLazy == [op |-> "-", handle |-> 0, result |-> "-", id |-> -1, again |-> FALSE]

InitLazy ==
    /\ lazy_cells = <<>>
    /\ lazy_names = <<>>
    /\ gpu_resources = EmptyMap
    /\ lazy_first = EmptyMap
    /\ lazy_last = NoLazy

GsIdle == [pc |-> "idle", type |-> <<>>, id |-> 0]

InitGetStaticRace ==
    /\ gs_threads = [t \in {1, 2} |-> GsIdle]
    /\ gs_cells = [c \in {"static_ids", "named_ids"} |-> Idle]

NoWinit ==
    [pc |-> "init", idx |-> 1, running |-> FALSE, log |-> <<>>, result |-> "-",
     failed |-> "-", ended |-> 0, window |-> FALSE, exiting |-> FALSE, frames |-> 0]

InitWinit == winit = NoWinit

\* EditorState::new, next to a world whose entity 1 has the component with
\* value 0.
NoEditor ==
    [names |-> EmptyMap, buffer |-> "", in_progress |-> None, history |-> <<>>,
     undone |-> <<>>, comp |-> Some(0), performed |-> 0]

NoEditorCall == [op |-> "-", result |-> "-"]

InitEditor ==
    /\ editor = NoEditor
    /\ editor_last = NoEditorCall

\* A Renderer with a surface and no frame begun; `submitted` lists what
\* queue.submit received, `acquired` and `presented` count surface textures.
NoRenderer ==
    [current_frame |-> None, command_buffers |-> <<>>, submitted |-> <<>>,
     acquired |-> 0, presented |-> 0, enqueued |-> 0]

InitRenderer ==
    /\ renderer = NoRenderer
    /\ renderer_last = "-"

\* EguiContext::new. `made` and `rendered` count the outputs that end_frame
\* stored and render took, `ordered` and `phase` follow the order of calls,
\* `op` and `ran` are the last call and whether it ran the closure.
NoEgui ==
    [full_output |-> None, locked |-> FALSE, began |-> FALSE, made |-> 0,
     rendered |-> 0, calls |-> 0, ordered |-> TRUE, phase |-> 0, op |-> "-",
     ran |-> FALSE]

InitEgui == egui = NoEgui

\* AssetServer::new.
NoAssets ==
    [next_id |-> 0, ids |-> EmptyMap, meshes |-> {}, textures |-> EmptyMap,
     materials |-> {}]

NoLoad == [op |-> "-", path |-> "-", result |-> "-"]

InitAssets ==
    /\ assets = NoAssets
    /\ asset_last = NoLoad

\* TypeRegistry::empty. `given` lists the (type, data type) pairs that
\* register_type_data was called with, it is no field of the registry.
NoTypeRegistry == [types |-> EmptyMap, given |-> {}]

NoTypeDataCall == [op |-> "-", type |-> "-", data |-> "-", result |-> None]

InitTypeData ==
    /\ type_registry = NoTypeRegistry
    /\ type_data_last = NoTypeDataCall

\* Everything but the threads of App::run.
InitBesideApp ==
    /\ InitMerge /\ InitGen /\ InitComponents /\ InitSystems
    /\ InitBundle /\ InitIter /\ InitLazy /\ InitGetStaticRace
    /\ InitWinit /\ InitEditor /\ InitRenderer
    /\ InitEgui /\ InitAssets /\ InitTypeData

InitLater == InitBesideApp /\ InitApp

vars == <<worldVars, queryVars, regVars, raceVars, laterVars>>

(***************************************************************************)
(* SpecBorrow: Read<T> and Write<T> queries taken and dropped over a small *)
(* world                                                                   *)
(***************************************************************************)
BorrowShapes == {Single(k, T) : k \in {"Read", "Write"}, T \in Comps}

\* Entities with one component, with two, and so without the third.
BorrowBundles == {{"A"}, {"A", "B"}}

SpawnBorrow == \E b \in BorrowBundles : Spawn(b, MaxBorrowEntities) /\ EcsFrame

NewBorrow == \E sh \in BorrowShapes : NewQuery(sh, MaxQueries) /\ QueryFrame

DropBorrow == \E i \in 1..MaxQueries : DropQuery(i, TRUE) /\ QueryFrame

InitBorrow == InitWorld /\ InitQueries /\ InitRegistry /\ InitRace /\ InitLater

NextBorrow == SpawnBorrow \/ NewBorrow \/ DropBorrow

SpecBorrow == InitBorrow /\ [][NextBorrow]_vars

(***************************************************************************)
(* SpecMixed: tuple queries whose members read and write, among them the   *)
(* same component type in both ways                                        *)
(***************************************************************************)
MixedComps == {"A", "B"}

\* query::<(&T, &mut U)>() and the like: every pair of members.
MixedShapes ==
    {[origin |-> "static", parts |-> <<Part(k1, T1), Part(k2, T2)>>,
      with |-> {}, without |-> {}] :
        k1 \in {"Read", "Write"}, k2 \in {"Read", "Write"},
        T1 \in MixedComps, T2 \in MixedComps}

\* One query at a time: the conflict is inside the query.
NewMixed ==
    /\ queries = <<>>
    /\ \E sh \in MixedShapes : NewQuery(sh, MaxQueries) /\ QueryFrame

NextMixed == SpawnBorrow \/ NewMixed \/ DropBorrow

SpecMixed == InitBorrow /\ [][NextMixed]_vars

(***************************************************************************)
(* SpecWorld: spawn, despawn, add_component and remove_component           *)
(***************************************************************************)
SpawnWorld == \E b \in Bundles : Spawn(b, MaxWorldEntities) /\ EcsFrame

DespawnWorld == \E e \in DOMAIN entities_components : Despawn(e) /\ EcsFrame

AddWorld ==
    \E e \in DOMAIN entities_components : \E c \in Comps :
        AddComponent(e, c) /\ EcsFrame

RemoveWorld ==
    \E e \in DOMAIN entities_components : \E c \in Comps :
        RemoveComponent(e, c) /\ EcsFrame

InitStructure == InitWorld /\ InitQueries /\ InitRegistry /\ InitRace /\ InitLater

NextWorld == SpawnWorld \/ DespawnWorld \/ AddWorld \/ RemoveWorld

SpecWorld == InitStructure /\ [][NextWorld]_vars

(***************************************************************************)
(* SpecQuery: a world built by spawn calls, and one query at a time built, *)
(* asked for entities and dropped                                          *)
(***************************************************************************)
ReadParts(cs) == [i \in DOMAIN BundleFields(cs) |-> Part("Read", BundleFields(cs)[i])]

\* query::<(&A, &B, ...)>()
StaticRead(cs) ==
    [origin |-> "static", parts |-> ReadParts(cs), with |-> {}, without |-> {}]

\* query_filtered::<&T, With<U>>() and query_filtered::<&T, Without<U>>()
FilteredWith(T, U) ==
    [origin |-> "filtered", parts |-> <<Part("Read", T)>>,
     with |-> {U}, without |-> {}]

FilteredWithout(T, U) ==
    [origin |-> "filtered", parts |-> <<Part("Read", T)>>,
     with |-> {}, without |-> {U}]

\* query_dynamic().read::<T>() or .read_id(dynamic_id::<T>()) for each T:
\* every T is resolved to its dynamic id by get_static.
RECURSIVE DynamicBuild(_, _, _)
DynamicBuild(r, fields, parts) ==
    IF fields = <<>> THEN [reg |-> r, parts |-> parts]
    ELSE LET g == GetStatic(r, TypeName(Head(fields)))
         IN  DynamicBuild(g.reg, Tail(fields),
                 Append(parts, [kind |-> "Read", comp |-> Head(fields), id |-> g.id]))

DynamicRead(cs, r) ==
    [origin |-> "dynamic", parts |-> DynamicBuild(r, BundleFields(cs), <<>>).parts,
     with |-> {}, without |-> {}]

NonEmptySets == (SUBSET Comps) \ {{}}

SpawnQuery == \E b \in TestBundles : Spawn(b, MaxEntities) /\ EcsFrame

NewStatic ==
    /\ queries = <<>>
    /\ \E cs \in NonEmptySets : NewQuery(StaticRead(cs), MaxQueries)
    /\ QueryFrame

NewFiltered ==
    /\ queries = <<>>
    /\ \E T \in Comps : \E U \in Comps \ {T} :
        \/ NewQuery(FilteredWith(T, U), MaxQueries)
        \/ NewQuery(FilteredWithout(T, U), MaxQueries)
    /\ QueryFrame

NewDynamic ==
    /\ queries = <<>>
    /\ \E cs \in NonEmptySets :
        /\ NewQuery(DynamicRead(cs, registry), MaxQueries)
        /\ registry' = DynamicBuild(registry, BundleFields(cs), <<>>).reg
    /\ UNCHANGED <<issued, issued_named>>
    /\ EcsFrame

DropOne == DropQuery(1, FALSE) /\ QueryFrame

NextQuery == SpawnQuery \/ NewStatic \/ NewFiltered \/ NewDynamic \/ DropOne

SpecQuery == InitStructure /\ [][NextQuery]_vars

(***************************************************************************)
(* SpecGet: SpecQuery with query.get(entity), asked for every entity of    *)
(* the world and for one that does not exist                               *)
(***************************************************************************)
GetOne == \E e \in 0..next_entity : GetQuery(1, e) /\ QueryFrame

NextGet == NextQuery \/ GetOne

SpecGet == InitStructure /\ [][NextGet]_vars

(***************************************************************************)
(* SpecRace: a world built by spawn calls, then two threads that each      *)
(* construct a Write query over the same component type and keep it        *)
(***************************************************************************)
SpawnRace ==
    /\ race_comp = "-"
    /\ \E b \in Bundles : Spawn(b, MaxRaceEntities) /\ EcsFrame

BeginRace == \E T \in Comps : StartRace(T)

Thread1 == RaceStep(1)

Thread2 == RaceStep(2)

NextRace == SpawnRace \/ BeginRace \/ Thread1 \/ Thread2

SpecRace ==
    /\ InitStructure
    /\ [][NextRace]_vars
    /\ WF_vars(Thread1)
    /\ WF_vars(Thread2)

(***************************************************************************)
(* SpecRegistry: get_static, get_named and create on one Registry          *)
(***************************************************************************)
RegTypes == {TypeName("A"), <<"game", "A">>, <<"u32">>}

RegNames == {<<"A">>, <<"Health">>}

FirstFree == RegistryNew.next_id

CanMint == registry.next_id < FirstFree + MaxMinted

Calls(T) == IF T \in DOMAIN issued THEN issued[T] ELSE <<>>

RegGetStatic ==
    \E T \in RegTypes :
        /\ CanMint
        /\ Len(Calls(T)) < MaxCalls
        /\ registry' = GetStatic(registry, T).reg
        /\ issued' = MapPut(issued, T, Append(Calls(T), GetStatic(registry, T).id))
        /\ UNCHANGED issued_named
        /\ RegistryFrame

NamedCalls(n) == IF n \in DOMAIN issued_named THEN issued_named[n] ELSE <<>>

RegGetNamed ==
    \E n \in RegNames :
        /\ CanMint
        /\ Len(NamedCalls(n)) < MaxCalls
        /\ registry' = GetNamed(registry, n).reg
        /\ issued_named' =
              MapPut(issued_named, n, Append(NamedCalls(n), GetNamed(registry, n).id))
        /\ UNCHANGED issued
        /\ RegistryFrame

RegCreate ==
    /\ CanMint
    /\ registry' = RegistryCreate(registry).reg
    /\ UNCHANGED <<issued, issued_named>>
    /\ RegistryFrame

NextRegistry == RegGetStatic \/ RegGetNamed \/ RegCreate

SpecRegistry == InitStructure /\ [][NextRegistry]_vars

(***************************************************************************)
(* SpecMerge: a primary registry and the registry split off it, both       *)
(* minting, and the primary merging the other back                         *)
(***************************************************************************)
MergeTypes == {TypeName("A"), TypeName("B")}

MergeNames == {<<"Health">>}

Sides == {"self", "other"}

Side(s) == IF s = "self" THEN registry ELSE other

CanMintIn(r) == r.next_id # 0 /\ r.next_id < FirstFree + MaxMergeMinted

MergeFrame ==
    UNCHANGED <<worldVars, queries, released, got, issued, issued_named, raceVars,
                genVars, compVars, sysVars, appVars, bundleVars, iterVars,
                gpuVars, regRaceVars, winitVars, editorVars, rendererVars,
                eguiVars, assetVars, typeDataVars>>

\* One call on one side: the side's registry becomes c.reg, and an id the
\* primary registry minted is remembered.
SideCall(s, c, op) ==
    /\ CanMintIn(Side(s))
    /\ IF s = "self"
       THEN /\ registry' = c.reg
            /\ minted' = IF c.reg.next_id # registry.next_id
                          THEN minted \cup {c.id} ELSE minted
            /\ UNCHANGED other
       ELSE /\ other' = c.reg
            /\ UNCHANGED <<registry, minted>>
    /\ last' = Done(op)
    /\ MergeFrame

MergeGetStatic ==
    \E s \in Sides : \E T \in MergeTypes :
        SideCall(s, GetStatic(Side(s), T), "get_static")

MergeGetNamed ==
    \E s \in Sides : \E n \in MergeNames :
        SideCall(s, GetNamed(Side(s), n), "get_named")

MergeCreate == \E s \in Sides : SideCall(s, RegistryCreate(Side(s)), "create")

RegSplit ==
    /\ other' = Split(registry)
    /\ last' = Done("split")
    /\ UNCHANGED <<registry, minted>>
    /\ MergeFrame

RegMerge ==
    /\ other # NoRegistry
    /\ registry' = Merge(registry, other)
    /\ last' = Done("merge")
    /\ UNCHANGED <<other, minted>>
    /\ MergeFrame

NextMerge == MergeGetStatic \/ MergeGetNamed \/ MergeCreate \/ RegSplit \/ RegMerge

SpecMerge == InitStructure /\ [][NextMerge]_vars

(***************************************************************************)
(* SpecGen: entity handles of index and generation; spawn takes a fresh    *)
(* or a freed index, despawn frees the index and increments its generation *)
(***************************************************************************)
GenValues == {1, 2}

GenFrame ==
    UNCHANGED <<worldVars, queryVars, regVars, raceVars, mergeVars, compVars, sysVars,
                appVars, bundleVars, iterVars, gpuVars, regRaceVars, winitVars,
                editorVars, rendererVars, eguiVars, assetVars, typeDataVars>>

\* The handle names a live entity: its index is in use at its generation.
ValidHandle(h) ==
    /\ h.index \in DOMAIN gen_slots
    /\ gen_slots[h.index].alive
    /\ gen_slots[h.index].generation = h.generation

KeepGeneration(g) == g

NextGeneration(g) == g + 1

\* The generation a spawn at index i hands out.
GenerationAt(i) == IF i \in DOMAIN gen_slots THEN gen_slots[i].generation ELSE 0

FreshIndex == Cardinality(DOMAIN gen_slots)

SpawnAt(i, v) ==
    LET h == [index |-> i, generation |-> GenerationAt(i)]
    IN  /\ gen_slots' = MapPut(gen_slots, i,
                            [generation |-> h.generation, alive |-> TRUE, value |-> v])
        /\ gen_free' = gen_free \ {i}
        /\ gen_issued' = Append(gen_issued, h)
        /\ gen_last' = GenDone("spawn", h, "ok", v)
        /\ UNCHANGED gen_dead

GenSpawn ==
    /\ Len(gen_issued) < MaxGenSpawns
    /\ \E v \in GenValues :
        \/ \E i \in gen_free : SpawnAt(i, v)
        \/ FreshIndex < MaxGenIndices /\ SpawnAt(FreshIndex, v)
    /\ GenFrame

GenDespawn ==
    /\ \E k \in DOMAIN gen_issued :
        LET h == gen_issued[k]
        IN  IF ValidHandle(h)
            THEN /\ gen_slots' = [gen_slots EXCEPT
                        ![h.index].alive = FALSE,
                        ![h.index].generation = NextGeneration(@)]
                 /\ gen_free' = gen_free \cup {h.index}
                 /\ gen_dead' = gen_dead \cup {h}
                 /\ gen_last' = GenDone("despawn", h, "ok", 0)
            ELSE /\ gen_last' = GenDone("despawn", h, "rejected", 0)
                 /\ UNCHANGED <<gen_slots, gen_free, gen_dead>>
    /\ UNCHANGED gen_issued
    /\ GenFrame

\* Reading the entity's data through a handle.
GenGet ==
    /\ \E k \in DOMAIN gen_issued :
        LET h == gen_issued[k]
        IN  gen_last' = IF ValidHandle(h)
                        THEN GenDone("get", h, "ok", gen_slots[h.index].value)
                        ELSE GenDone("get", h, "rejected", 0)
    /\ UNCHANGED <<gen_slots, gen_free, gen_issued, gen_dead>>
    /\ GenFrame

\* Writing the entity's data through a handle.
GenSet ==
    /\ \E k \in DOMAIN gen_issued : \E v \in GenValues :
        LET h == gen_issued[k]
        IN  IF ValidHandle(h)
            THEN /\ gen_slots' = [gen_slots EXCEPT ![h.index].value = v]
                 /\ gen_last' = GenDone("set", h, "ok", v)
            ELSE /\ gen_last' = GenDone("set", h, "rejected", 0)
                 /\ UNCHANGED gen_slots
    /\ UNCHANGED <<gen_free, gen_issued, gen_dead>>
    /\ GenFrame

NextGen == GenSpawn \/ GenDespawn \/ GenGet \/ GenSet

SpecGen == InitStructure /\ [][NextGen]_vars

(***************************************************************************)
(* SpecComponents: the component store keyed by entity, one Vec of boxed   *)
(* components per entity: spawn, add_component and remove_component        *)
(***************************************************************************)
CompTypes == {"A", "B"}

CompValues == {1, 2}

CompFrame ==
    UNCHANGED <<entities_components, archetypes, borrow_intent, locks, queryVars,
                regVars, raceVars, mergeVars, genVars, sysVars, appVars,
                bundleVars, iterVars, gpuVars, regRaceVars, winitVars,
                editorVars, rendererVars, eguiVars, assetVars, typeDataVars>>

\* data.entry(entity).or_default(): the entity's Vec, empty when it has none.
EntryOf(data, e) == IF e \in DOMAIN data THEN data[e] ELSE <<>>

ComponentsInsertReplaces(data, e, T, v) ==
    MapPut(data, e, <<[type |-> T, value |-> v]>>)

\* Components::insert: the component is pushed onto the entity's Vec.
ComponentsInsert(data, e, T, v) ==
    MapPut(data, e, Append(EntryOf(data, e), [type |-> T, value |-> v]))

ComponentsRemoveClears(data, e, T) ==
    IF e \in DOMAIN data THEN [data EXCEPT ![e] = <<>>] ELSE data

\* Components::remove: the entity's Vec keeps the components not of type T.
ComponentsRemove(data, e, T) ==
    IF e \in DOMAIN data
    THEN [data EXCEPT ![e] = SelectSeq(@, LAMBDA c : c.type # T)]
    ELSE data

RECURSIVE SumLen(_, _)
SumLen(data, es) ==
    IF es = {} THEN 0
    ELSE LET e == Min(es) IN Len(data[e]) + SumLen(data, es \ {e})

\* The number of components in the store.
Stored == SumLen(components, DOMAIN components)

OldSpawn ==
    /\ next_entity < MaxCompEntities
    /\ Stored < MaxComponents
    /\ \E T \in CompTypes : \E v \in CompValues :
        LET e == AllocEntity
        IN  /\ components' = ComponentsInsert(components, e, T, v)
            /\ comp_last' = CompDone("spawn", e, T, <<>>)
    /\ next_entity' = next_entity + 1
    /\ CompFrame

\* add_component and remove_component take any Entity value, also one that
\* no spawn has returned.
OldAddComponent ==
    /\ \E e \in 0..next_entity : \E T \in CompTypes : \E v \in CompValues :
        /\ Stored < MaxComponents
        /\ components' = ComponentsInsert(components, e, T, v)
        /\ comp_last' = CompDone("add", e, T, EntryOf(components, e))
    /\ UNCHANGED next_entity
    /\ CompFrame

OldRemoveComponent ==
    /\ \E e \in 0..next_entity : \E T \in CompTypes :
        /\ components' = ComponentsRemove(components, e, T)
        /\ comp_last' = CompDone("remove", e, T,
                            IF comp_last = CompDone("add", e, T, comp_last.before)
                            THEN comp_last.before ELSE <<>>)
    /\ UNCHANGED next_entity
    /\ CompFrame

NextComponents == OldSpawn \/ OldAddComponent \/ OldRemoveComponent

SpecComponents == InitStructure /\ [][NextComponents]_vars

(***************************************************************************)
(* SpecSystems: register_system and update of the world that keeps its     *)
(* systems in one Vec of Arc<Mutex<dyn System>>                            *)
(***************************************************************************)
SysFrame ==
    UNCHANGED <<worldVars, queryVars, regVars, raceVars, mergeVars, genVars, compVars,
                appVars, bundleVars, iterVars, gpuVars, regRaceVars, winitVars,
                editorVars, rendererVars, eguiVars, assetVars, typeDataVars>>

\* register_system: the system is pushed; a system is named by its place.
\* A running system holds &mut World and may register one, too.
RegisterSystem ==
    /\ Len(systems) < MaxSystems
    /\ systems' = Append(systems, Len(systems) + 1)
    /\ UNCHANGED <<poisoned, update>>
    /\ SysFrame

\* update is entered: the loop runs over a clone of the Vec.
UpdateBegin ==
    /\ update.pc # "running"
    /\ update' = [pc |-> "running", list |-> systems, i |-> 1, ran |-> <<>>,
                  skipped |-> {}]
    /\ UNCHANGED <<systems, poisoned>>
    /\ SysFrame

LockAlwaysOk(s) == "Ok"

\* system.lock(): Err when a panic has poisoned the Mutex.
LockSystem(s) == IF s \in poisoned THEN "Err" ELSE "Ok"

\* A panic inside run that is caught and the loop goes on.
PanicSwallowed(u, s) == [u EXCEPT !.i = @ + 1, !.ran = Append(@, s)]

\* A panic inside run (also the unwrap of an Err the system returned)
\* unwinds through update: the loop is left at this system.
PanicUnwinds(u, s) == [u EXCEPT !.pc = "panicked", !.ran = Append(@, s)]

\* One turn of the loop: the system is locked and run, or its lock fails
\* and a warning is logged. A system that panics poisons its Mutex and the
\* panic leaves update.
UpdateStep ==
    /\ update.pc = "running"
    /\ update.i <= Len(update.list)
    /\ LET s == update.list[update.i]
       IN  IF LockSystem(s) = "Ok"
           THEN \/ /\ update' = [update EXCEPT !.i = @ + 1, !.ran = Append(@, s)]
                   /\ UNCHANGED poisoned
                \/ /\ update' = PanicUnwinds(update, s)
                   /\ poisoned' = poisoned \cup {s}
           ELSE /\ update' = [update EXCEPT !.i = @ + 1, !.skipped = @ \cup {s}]
                /\ UNCHANGED poisoned
    /\ UNCHANGED systems
    /\ SysFrame

\* The loop is over and update returns.
UpdateEnd ==
    /\ update.pc = "running"
    /\ update.i > Len(update.list)
    /\ update' = [update EXCEPT !.pc = "done"]
    /\ UNCHANGED <<systems, poisoned>>
    /\ SysFrame

NextSystems == RegisterSystem \/ UpdateBegin \/ UpdateStep \/ UpdateEnd

SpecSystems == InitStructure /\ [][NextSystems]_vars

(***************************************************************************)
(* App::run: the update thread and the event loop run stages on one world  *)
(***************************************************************************)
AppFrame ==
    UNCHANGED <<worldVars, queryVars, regVars, raceVars, mergeVars, genVars, compVars,
                sysVars, bundleVars, iterVars, gpuVars, regRaceVars, winitVars,
                editorVars, rendererVars, eguiVars, assetVars, typeDataVars>>

AppThreads == {"update", "event"}

\* The stages of one tick, in the order the winit runner runs them.
TickOrder ==
    <<"PreUpdate", "Update", "PostUpdate", "Ui", "PreRender", "Render", "PostRender">>

\* The systems registered to a stage, in registration order: one ordinary
\* system, named after its stage, and EditorActions in the stage it joins.
StageSystems(stage) ==
    IF stage = excl_stage THEN <<stage, "EditorActions">> ELSE <<stage>>

\* System::is_exclusive without an override.
IsExclusiveDefault(s) == FALSE

\* EditorActions overrides is_exclusive to return true.
IsExclusive(s) == s = "EditorActions"

\* The scheduler's gate: an exclusive system starts only when nothing is
\* running, any other system only when no exclusive system is running.
CanStart(s) ==
    IF IsExclusive(s) THEN app_active = {}
    ELSE \A a \in app_active : ~IsExclusive(a.system)

SetThread(t, rec) == [app_threads EXCEPT ![t] = rec]

\* add_system_to_stage(EditorActions, stage), called before App::run.
AddExclusive ==
    /\ excl_stage = "-"
    /\ app_threads = AppThreadsAtStart
    /\ stage_log = <<>>
    /\ excl_stage' \in {"Update", "Ui"}
    /\ UNCHANGED <<app_threads, app_active, stage_log, killswitch>>
    /\ AppFrame

\* run_systems(stage) is entered: the next stage of the thread's pass.
StageBegin(t) ==
    LET th == app_threads[t] IN
    /\ th.plan # <<>>
    /\ th.stage = "-"
    /\ LET stage == Head(th.plan) IN
         /\ stage \in Range(TickOrder) => Len(stage_log) < MaxStageLog
         /\ stage_log' = IF stage \in Range(TickOrder) THEN Append(stage_log, stage)
                         ELSE stage_log
         /\ app_threads' = SetThread(t, [th EXCEPT !.stage = stage,
                                                   !.todo = StageSystems(stage)])
    /\ UNCHANGED <<app_active, killswitch, excl_stage>>
    /\ AppFrame

\* The stage's next system starts once the gate lets it.
SystemStart(t) ==
    LET th == app_threads[t] IN
    /\ th.stage # "-"
    /\ th.todo # <<>>
    /\ th.running = "-"
    /\ CanStart(Head(th.todo))
    /\ app_threads' = SetThread(t, [th EXCEPT !.running = Head(th.todo)])
    /\ app_active' = app_active \cup {[thread |-> t, system |-> Head(th.todo)]}
    /\ UNCHANGED <<stage_log, killswitch, excl_stage>>
    /\ AppFrame

\* The running system returns.
SystemEnd(t) ==
    LET th == app_threads[t] IN
    /\ th.running # "-"
    /\ app_threads' = SetThread(t, [th EXCEPT !.running = "-", !.todo = Tail(th.todo)])
    /\ app_active' = app_active \ {[thread |-> t, system |-> th.running]}
    /\ UNCHANGED <<stage_log, killswitch, excl_stage>>
    /\ AppFrame

\* run_systems(stage) returns after the stage's last system.
StageEnd(t) ==
    LET th == app_threads[t] IN
    /\ th.stage # "-"
    /\ th.todo = <<>>
    /\ th.running = "-"
    /\ app_threads' = SetThread(t, [th EXCEPT !.stage = "-", !.plan = Tail(th.plan)])
    /\ UNCHANGED <<app_active, stage_log, killswitch, excl_stage>>
    /\ AppFrame

\* The update thread after PostUpdate: a message in the killswitch channel
\* ends the loop and Shutdown runs, otherwise the loop starts over.
UpdateLoop ==
    LET th == app_threads["update"] IN
    /\ th.mode = "loop"
    /\ th.plan = <<>>
    /\ IF killswitch
       THEN /\ killswitch' = FALSE
            /\ app_threads' = SetThread("update", AppThread("shutdown", <<"Shutdown">>))
       ELSE /\ killswitch' = killswitch
            /\ app_threads' = SetThread("update", AppThread("loop", UpdateStages))
    /\ UNCHANGED <<app_active, stage_log, excl_stage>>
    /\ AppFrame

\* The update thread's closure returns after Shutdown.
UpdateExit ==
    LET th == app_threads["update"] IN
    /\ th.mode = "shutdown"
    /\ th.plan = <<>>
    /\ app_threads' = SetThread("update", AppThread("done", <<>>))
    /\ UNCHANGED <<app_active, stage_log, killswitch, excl_stage>>
    /\ AppFrame

\* WindowEvent::RedrawRequested reaches the event loop.
RedrawRequested ==
    LET th == app_threads["event"] IN
    /\ th.mode = "wait"
    /\ th.plan = <<>>
    /\ app_threads' = SetThread("event", AppThread("wait", RedrawStages))
    /\ UNCHANGED <<app_active, stage_log, killswitch, excl_stage>>
    /\ AppFrame

\* WindowEvent::CloseRequested: target.exit(), then Event::LoopExiting sends
\* the killswitch and the event loop returns.
CloseRequested ==
    LET th == app_threads["event"] IN
    /\ th.mode = "wait"
    /\ th.plan = <<>>
    /\ killswitch' = TRUE
    /\ app_threads' = SetThread("event", AppThread("done", <<>>))
    /\ UNCHANGED <<app_active, stage_log, excl_stage>>
    /\ AppFrame

NextApp ==
    \/ AddExclusive
    \/ \E t \in AppThreads : StageBegin(t)
    \/ \E t \in AppThreads : SystemStart(t)
    \/ \E t \in AppThreads : SystemEnd(t)
    \/ \E t \in AppThreads : StageEnd(t)
    \/ UpdateLoop
    \/ UpdateExit
    \/ RedrawRequested
    \/ CloseRequested

SpecApp == InitStructure /\ [][NextApp]_vars

(***************************************************************************)
(* SpecBundle: the component-type id list of a bundle, as the derive macro *)
(* and as the tuple impl compute it                                        *)
(***************************************************************************)
BundleFrame ==
    UNCHANGED <<worldVars, queryVars, issued, issued_named, raceVars, mergeVars, genVars,
                compVars, sysVars, appVars, iterVars, gpuVars, regRaceVars,
                winitVars, editorVars, rendererVars, eguiVars, assetVars,
                typeDataVars>>

\* The field lists of a bundle: up to MaxBundleFields distinct component
\* types, in every order.
FieldLists ==
    {f \in UNION {[1..n -> Comps] : n \in 1..MaxBundleFields} :
        \A i, j \in DOMAIN f : i # j => f[i] # f[j]}

\* The ids get_static returns for the fields, pushed in field order.
RECURSIVE PushIds(_, _, _)
PushIds(r, fields, ids) ==
    IF fields = <<>> THEN [reg |-> r, ids |-> ids]
    ELSE LET g == GetStatic(r, TypeName(Head(fields)))
         IN  PushIds(g.reg, Tail(fields), Append(ids, g.id))

\* sort_unstable on a Vec of ids: ascending.
RECURSIVE SortUnstable(_)
SortUnstable(ids) ==
    IF ids = <<>> THEN <<>>
    ELSE LET m == Min(Range(ids))
             k == CHOOSE i \in DOMAIN ids : ids[i] = m
         IN  <<m>> \o SortUnstable(RemoveAt(ids, k))

\* #[derive(Bundle)]: component_types pushes the fields' ids and sorts them.
ComponentTypes(r, fields) ==
    LET p == PushIds(r, fields, <<>>)
    IN  [reg |-> p.reg, ids |-> SortUnstable(p.ids)]

\* The tuple impl: type_ids is the vec of the members' ids, in tuple order.
TypeIds(r, fields) == PushIds(r, fields, <<>>)

DeriveBundle ==
    \E f \in FieldLists :
        /\ registry' = ComponentTypes(registry, f).reg
        /\ bundle_prev' = bundle_last
        /\ bundle_last' = [impl |-> "derive", fields |-> f,
                           ids |-> ComponentTypes(registry, f).ids]
        /\ BundleFrame

TupleBundle ==
    \E f \in FieldLists :
        /\ registry' = TypeIds(registry, f).reg
        /\ bundle_prev' = bundle_last
        /\ bundle_last' = [impl |-> "tuple", fields |-> f,
                           ids |-> TypeIds(registry, f).ids]
        /\ BundleFrame

NextBundle == DeriveBundle \/ TupleBundle

SpecBundle == InitStructure /\ [][NextBundle]_vars

(***************************************************************************)
(* SpecIter: one live query whose iter() is called again and again, each   *)
(* iterator consumed to its end before the next call                       *)
(***************************************************************************)
IterFrame ==
    UNCHANGED <<raceVars, mergeVars, genVars, compVars, sysVars, appVars, bundleVars, gpuVars,
                regRaceVars, winitVars, editorVars, rendererVars, eguiVars,
                assetVars, typeDataVars>>

IterBundles == {{"A"}, {"A", "B"}}

IterShapes ==
    {Single(k, T) : k \in {"Read", "Write"}, T \in {"A", "B"}}
        \cup {StaticRead({"A", "B"}), FilteredWith("A", "B")}

\* An item that is forgotten, not dropped: its cell borrows stay.
KeepItem(held) == held

\* The consumer drops the item it was given: the Ref or RefMut of every
\* member ends.
DropItem(held) == {}

\* component.borrow() / component.borrow_mut() on the RefCell of an entry.
CellBorrow(held, kind, slot) ==
    IF kind = "Read"
    THEN IF [kind |-> "Write", slot |-> slot] \in held THEN "panic" ELSE "ok"
    ELSE IF \E h \in held : h.slot = slot THEN "panic" ELSE "ok"

SpawnIter ==
    /\ \E b \in IterBundles : Spawn(b, MaxIterEntities)
    /\ UNCHANGED iterVars
    /\ IterFrame

DespawnIter ==
    /\ \E e \in DOMAIN entities_components : Despawn(e)
    /\ UNCHANGED iterVars
    /\ IterFrame

NewIter ==
    /\ queries = <<>>
    /\ \E sh \in IterShapes : NewQuery(sh, MaxQueries)
    /\ UNCHANGED <<regVars, iterVars>>
    /\ IterFrame

\* query.iter(): a lazy iterator over the entries, nothing is borrowed yet.
IterBegin ==
    /\ queries # <<>>
    /\ iter.pc = "idle"
    /\ Len(iter_runs) < MaxIterRuns
    /\ iter' = [NoIter EXCEPT !.pc = "running", !.held = iter.held]
    /\ UNCHANGED <<worldVars, queryVars, regVars, iter_runs>>
    /\ IterFrame

\* next(): the item before is gone, the entry at the iterator's place is
\* borrowed for every member of the query and handed out.
IterNext ==
    /\ iter.pc = "running"
    /\ iter.k <= Len(QueryIter(queries[1]))
    /\ LET q == queries[1]
           item == QueryIter(q)[iter.k]
           free == DropItem(iter.held)
           asks == {[kind |-> q.parts[j].kind, slot |-> item.value[j]] :
                        j \in DOMAIN q.parts}
       IN  IF \A a \in asks : CellBorrow(free, a.kind, a.slot) = "ok"
           THEN iter' = [iter EXCEPT !.k = @ + 1, !.held = free \cup asks,
                                      !.yielded = Append(@, item)]
           ELSE iter' = [iter EXCEPT !.pc = "panicked", !.held = free]
    /\ UNCHANGED <<worldVars, queryVars, regVars, iter_runs>>
    /\ IterFrame

\* next() returns None: the iterator is consumed and dropped.
IterEnd ==
    /\ iter.pc = "running"
    /\ iter.k > Len(QueryIter(queries[1]))
    /\ iter' = [NoIter EXCEPT !.held = DropItem(iter.held)]
    /\ iter_runs' = Append(iter_runs, iter.yielded)
    /\ UNCHANGED <<worldVars, queryVars, regVars>>
    /\ IterFrame

DropIter ==
    /\ iter.pc = "idle"
    /\ DropQuery(1, FALSE)
    /\ iter' = NoIter
    /\ iter_runs' = <<>>
    /\ UNCHANGED regVars
    /\ IterFrame

NextIter ==
    SpawnIter \/ DespawnIter \/ NewIter \/ IterBegin \/ IterNext \/ IterEnd \/ DropIter

SpecIter == InitStructure /\ [][NextIter]_vars

(***************************************************************************)
(* SpecLazy: LazyGpuHandle values, their clones, and lazy_init, update and *)
(* destroy on them                                                         *)
(***************************************************************************)
LazyFrame ==
    UNCHANGED <<worldVars, queryVars, regVars, raceVars, mergeVars, genVars, compVars,
                sysVars, appVars, bundleVars, iterVars, regRaceVars, winitVars,
                editorVars, rendererVars, eguiVars, assetVars, typeDataVars>>

Pending(data) == [tag |-> "Pending", data |-> data]

Ready(id) == [tag |-> "Ready", id |-> id]

Destroyed == [tag |-> "Destroyed"]

\* manager.insert_resource: the resource is stored under a fresh id and a
\* ready handle with that id is returned.
InsertResource(res) ==
    LET id == Cardinality(DOMAIN res)
    IN  [resources |-> MapPut(res, id, "Ready"), id |-> id]

\* A lazy_init that allocates whatever the status is.
LazyInitAlwaysCreates(st, res) ==
    LET ins == InsertResource(res)
    IN  [status |-> Ready(ins.id), resources |-> ins.resources,
         result |-> "ok", id |-> ins.id]

\* lazy_init: a ready status hands out a clone of its handle; a pending one
\* creates the resource (with or without pending data), inserts it and
\* becomes ready; a destroyed one is an error.
LazyInit(st, res) ==
    CASE st.tag = "Ready" ->
            [status |-> st, resources |-> res, result |-> "ok", id |-> st.id]
      [] st.tag = "Pending" ->
            LET ins == InsertResource(res)
            IN  [status |-> Ready(ins.id), resources |-> ins.resources,
                 result |-> "ok", id |-> ins.id]
      [] OTHER ->
            [status |-> st, resources |-> res, result |-> "err", id |-> -1]

\* LazyGpuHandle::new, with or without pending data.
LazyNew ==
    /\ Len(lazy_cells) < MaxLazyCells
    /\ Len(lazy_names) < MaxLazyHandles
    /\ \E data \in BOOLEAN : lazy_cells' = Append(lazy_cells, Pending(data))
    /\ lazy_names' = Append(lazy_names, Len(lazy_cells) + 1)
    /\ lazy_last' = [NoLazy EXCEPT !.op = "new", !.handle = Len(lazy_names) + 1]
    /\ UNCHANGED <<gpu_resources, lazy_first>>
    /\ LazyFrame

\* clone: the new value shares the Rc of the status.
LazyClone ==
    /\ Len(lazy_names) < MaxLazyHandles
    /\ \E h \in DOMAIN lazy_names :
        /\ lazy_names' = Append(lazy_names, lazy_names[h])
        /\ lazy_last' = [NoLazy EXCEPT !.op = "clone", !.handle = Len(lazy_names) + 1]
    /\ UNCHANGED <<lazy_cells, gpu_resources, lazy_first>>
    /\ LazyFrame

LazyInitCall ==
    \E h \in DOMAIN lazy_names :
        LET c == lazy_names[h]
            r == LazyInit(lazy_cells[c], gpu_resources)
        IN  /\ Cardinality(DOMAIN r.resources) <= MaxGpuResources
            /\ lazy_cells' = [lazy_cells EXCEPT ![c] = r.status]
            /\ gpu_resources' = r.resources
            /\ lazy_first' = IF r.result = "ok" /\ c \notin DOMAIN lazy_first
                              THEN MapPut(lazy_first, c, r.id) ELSE lazy_first
            /\ lazy_last' = [op |-> "init", handle |-> h, result |-> r.result,
                              id |-> r.id, again |-> c \in DOMAIN lazy_first]
            /\ UNCHANGED lazy_names
            /\ LazyFrame

\* update: a ready handle is marked pending an update unless it is
\* destroyed, a pending status takes the data, a destroyed one only warns.
LazyUpdate ==
    \E h \in DOMAIN lazy_names :
        LET c == lazy_names[h]
            st == lazy_cells[c]
        IN  /\ CASE st.tag = "Ready" ->
                     /\ gpu_resources' =
                           IF gpu_resources[st.id] # "Destroyed"
                           THEN [gpu_resources EXCEPT ![st.id] = "Pending"]
                           ELSE gpu_resources
                     /\ UNCHANGED lazy_cells
                 [] st.tag = "Pending" ->
                     /\ lazy_cells' = [lazy_cells EXCEPT ![c] = Pending(TRUE)]
                     /\ UNCHANGED gpu_resources
                 [] OTHER -> UNCHANGED <<lazy_cells, gpu_resources>>
            /\ lazy_last' = [NoLazy EXCEPT !.op = "update", !.handle = h]
            /\ UNCHANGED <<lazy_names, lazy_first>>
            /\ LazyFrame

\* destroy: a ready handle is marked destroyed, a pending status becomes
\* destroyed, a destroyed one only warns.
LazyDestroy ==
    \E h \in DOMAIN lazy_names :
        LET c == lazy_names[h]
            st == lazy_cells[c]
        IN  /\ CASE st.tag = "Ready" ->
                     /\ gpu_resources' = [gpu_resources EXCEPT ![st.id] = "Destroyed"]
                     /\ UNCHANGED lazy_cells
                 [] st.tag = "Pending" ->
                     /\ lazy_cells' = [lazy_cells EXCEPT ![c] = Destroyed]
                     /\ UNCHANGED gpu_resources
                 [] OTHER -> UNCHANGED <<lazy_cells, gpu_resources>>
            /\ lazy_last' = [NoLazy EXCEPT !.op = "destroy", !.handle = h]
            /\ UNCHANGED <<lazy_names, lazy_first>>
            /\ LazyFrame

NextLazy == LazyNew \/ LazyClone \/ LazyInitCall \/ LazyUpdate \/ LazyDestroy

SpecLazy == InitStructure /\ [][NextLazy]_vars

(***************************************************************************)
(* SpecGetStaticRace: two threads, each in one get_static call on the same *)
(* Registry; every borrow of an AtomicRefCell and the fetch_add are steps  *)
(***************************************************************************)
GsFrame ==
    UNCHANGED <<worldVars, queryVars, issued, issued_named, raceVars, mergeVars, genVars,
                compVars, sysVars, appVars, bundleVars, iterVars, gpuVars,
                winitVars, editorVars, rendererVars, eguiVars, assetVars,
                typeDataVars>>

GsTypes == {TypeName("A"), TypeName("B")}

GsSet(t, pc, id) == [gs_threads EXCEPT ![t].pc = pc, ![t].id = id]

\* The thread enters get_static::<T>().
GsCall(t) ==
    /\ gs_threads[t].pc = "idle"
    /\ \E T \in GsTypes : gs_threads' = [gs_threads EXCEPT ![t].pc = "check", ![t].type = T]
    /\ UNCHANGED <<registry, gs_cells>>
    /\ GsFrame

\* self.static_ids.borrow(): panics while the cell is mutably borrowed.
GsCheck(t) ==
    /\ gs_threads[t].pc = "check"
    /\ IF gs_cells["static_ids"].writer
       THEN /\ gs_threads' = GsSet(t, "panicked", 0)
            /\ UNCHANGED gs_cells
       ELSE /\ gs_threads' = GsSet(t, "lookup", 0)
            /\ gs_cells' = [gs_cells EXCEPT !["static_ids"].readers = @ + 1]
    /\ UNCHANGED registry
    /\ GsFrame

\* .get(&TypeId::of::<T>()): the stored id is returned, or the borrow ends
\* and the thread goes on to mint one.
GsLookup(t) ==
    /\ gs_threads[t].pc = "lookup"
    /\ gs_cells' = [gs_cells EXCEPT !["static_ids"].readers = @ - 1]
    /\ gs_threads' =
          IF gs_threads[t].type \in DOMAIN registry.static_ids
          THEN GsSet(t, "done", registry.static_ids[gs_threads[t].type])
          ELSE GsSet(t, "create", 0)
    /\ UNCHANGED registry
    /\ GsFrame

\* let id = self.create()
GsCreate(t) ==
    /\ gs_threads[t].pc = "create"
    /\ registry' = RegistryCreate(registry).reg
    /\ gs_threads' = GsSet(t, "borrow_static", RegistryCreate(registry).id)
    /\ UNCHANGED gs_cells
    /\ GsFrame

\* The cell the thread writes next, and where it goes after the insert.
GsCell(pc) == IF pc \in {"borrow_static", "insert_static"} THEN "static_ids" ELSE "named_ids"

\* borrow_mut() on static_ids, later on named_ids: panics while the cell
\* is borrowed in any way.
GsBorrowMut(t) ==
    /\ gs_threads[t].pc \in {"borrow_static", "borrow_named"}
    /\ LET c == GsCell(gs_threads[t].pc)
       IN  IF gs_cells[c].writer \/ gs_cells[c].readers > 0
           THEN /\ gs_threads' = GsSet(t, "panicked", gs_threads[t].id)
                /\ UNCHANGED gs_cells
           ELSE /\ gs_threads' =
                      GsSet(t, IF c = "static_ids" THEN "insert_static" ELSE "insert_named",
                            gs_threads[t].id)
                /\ gs_cells' = [gs_cells EXCEPT ![c].writer = TRUE]
    /\ UNCHANGED registry
    /\ GsFrame

\* .insert(static_id, id), later .insert(name, id): the entry is written,
\* replacing one under the same key, and the borrow ends.
GsInsert(t) ==
    /\ gs_threads[t].pc \in {"insert_static", "insert_named"}
    /\ LET c == GsCell(gs_threads[t].pc)
           T == gs_threads[t].type
           id == gs_threads[t].id
       IN  /\ gs_cells' = [gs_cells EXCEPT ![c].writer = FALSE]
           /\ IF c = "static_ids"
              THEN /\ registry' = [registry EXCEPT !.static_ids = MapPut(@, T, id)]
                   /\ gs_threads' = GsSet(t, "borrow_named", id)
              ELSE /\ registry' =
                         [registry EXCEPT !.named_ids = MapPut(@, StaticName(T), id)]
                   /\ gs_threads' = GsSet(t, "done", id)
    /\ GsFrame

GetStaticThread(t) ==
    GsCall(t) \/ GsCheck(t) \/ GsLookup(t) \/ GsCreate(t) \/ GsBorrowMut(t) \/ GsInsert(t)

GetStaticThread1 == GetStaticThread(1)

GetStaticThread2 == GetStaticThread(2)

NextGetStaticRace == GetStaticThread1 \/ GetStaticThread2

SpecGetStaticRace == InitStructure /\ [][NextGetStaticRace]_vars

(***************************************************************************)
(* WinitRunner::run: init stages, the event loop, shutdown stages          *)
(***************************************************************************)
WinitFrame ==
    UNCHANGED <<worldVars, queryVars, regVars, raceVars, mergeVars, genVars, compVars,
                sysVars, appVars, bundleVars, iterVars, gpuVars, regRaceVars,
                editorVars, rendererVars, eguiVars, assetVars, typeDataVars>>

\* The frames the event loop is followed through.
MaxFrames == 2

\* The stages run() and window_event() pass to run_systems, by phase.
PhaseStages(pc) ==
    IF pc = "init" THEN <<"PreInit", "Init", "PostInit">>
    ELSE IF pc = "frame" THEN TickOrder
    ELSE <<"PreShutdown", "Shutdown", "PostShutdown">>

\* run_systems returned Ok: the next statement of the phase, or the phase's
\* successor after its last stage.
StageOk(w) ==
    LET v == [w EXCEPT !.running = FALSE, !.ended = @ + 1] IN
    IF w.idx < Len(PhaseStages(w.pc)) THEN [v EXCEPT !.idx = @ + 1]
    ELSE IF w.pc = "init" THEN [v EXCEPT !.pc = "loop", !.idx = 1]
    ELSE IF w.pc = "frame" THEN [v EXCEPT !.pc = "loop", !.idx = 1, !.frames = @ + 1]
    ELSE [v EXCEPT !.pc = "returned", !.result = "Ok"]

\* A runner that goes on to the next stage after an Err.
StageErrIgnored(w) == [StageOk(w) EXCEPT !.failed = PhaseStages(w.pc)[w.idx]]

\* run_systems returned Err: `?` returns it from run(); the handler's unwrap
\* panics instead.
StageErr(w) ==
    LET v == [w EXCEPT !.running = FALSE, !.ended = @ + 1,
                       !.failed = PhaseStages(w.pc)[w.idx]] IN
    IF w.pc = "frame" THEN [v EXCEPT !.pc = "panicked"]
    ELSE [v EXCEPT !.pc = "returned", !.result = "Err"]

WinitStageBegin ==
    /\ winit.pc \in {"init", "frame", "shutdown"}
    /\ ~winit.running
    /\ winit' = [winit EXCEPT !.running = TRUE,
                              !.log = Append(@, PhaseStages(winit.pc)[winit.idx])]
    /\ WinitFrame

WinitStageEnd ==
    /\ winit.running
    /\ \E ok \in BOOLEAN : winit' = IF ok THEN StageOk(winit) ELSE StageErr(winit)
    /\ WinitFrame

\* resumed(): creates the window unless there is one.
WinitResumed ==
    /\ winit.pc = "loop"
    /\ ~winit.window
    /\ winit' = [winit EXCEPT !.window = TRUE]
    /\ WinitFrame

\* window_event(RedrawRequested) for the window: one frame's stages.
WinitRedraw ==
    /\ winit.pc = "loop"
    /\ winit.window
    /\ winit.frames < MaxFrames
    /\ winit' = [winit EXCEPT !.pc = "frame", !.idx = 1]
    /\ WinitFrame

\* window_event(CloseRequested) for the window: event_loop.exit().
WinitClose ==
    /\ winit.pc = "loop"
    /\ winit.window
    /\ ~winit.exiting
    /\ winit' = [winit EXCEPT !.exiting = TRUE]
    /\ WinitFrame

\* run_app returns after exit(): Ok goes on to the shutdown stages, Err
\* is returned by `?`.
WinitLoopReturn ==
    /\ winit.pc = "loop"
    /\ winit.exiting
    /\ \E ok \in BOOLEAN :
         winit' = IF ok THEN [winit EXCEPT !.pc = "shutdown", !.idx = 1]
                  ELSE [winit EXCEPT !.pc = "returned", !.result = "Err",
                                     !.failed = "EventLoop"]
    /\ WinitFrame

NextWinit ==
    \/ WinitStageBegin
    \/ WinitStageEnd
    \/ WinitResumed
    \/ WinitRedraw
    \/ WinitClose
    \/ WinitLoopReturn

SpecWinit == InitStructure /\ [][NextWinit]_vars

(***************************************************************************)
(* App::run from its first statement to the return of main                 *)
(***************************************************************************)
\* App::run is entered: the calling thread is about to run Startup and the
\* update thread is not spawned yet.
InitAppRun ==
    /\ InitWorld /\ InitQueries /\ InitRegistry /\ InitRace /\ InitBesideApp
    /\ app_threads = [t \in AppThreads |->
                        IF t = "update" THEN AppThread("unspawned", <<>>)
                        ELSE AppThread("startup", <<"Startup">>)]
    /\ app_active = {}
    /\ stage_log = <<>>
    /\ killswitch = FALSE
    /\ excl_stage = "-"

\* After run_systems(Startup) has returned: the update thread is spawned and
\* the calling thread enters event_loop.run.
SpawnUpdate ==
    LET th == app_threads["event"] IN
    /\ th.mode = "startup"
    /\ th.plan = <<>>
    /\ app_threads' = AppThreadsAtStart
    /\ UNCHANGED <<app_active, stage_log, killswitch, excl_stage>>
    /\ AppFrame

\* event_loop.run has returned: run returns Ok(()) and main returns it. The
\* update thread was never joined, so the process ends with that thread
\* wherever it is.
MainReturns ==
    LET th == app_threads["event"] IN
    /\ th.mode = "done"
    /\ app_threads' =
         [t \in AppThreads |->
            IF t = "event" THEN AppThread("exited", <<>>)
            ELSE IF app_threads[t].mode = "done" THEN app_threads[t]
            ELSE [app_threads[t] EXCEPT !.mode = "killed"]]
    /\ app_active' = {a \in app_active : app_threads[a.thread].mode = "done"}
    /\ UNCHANGED <<stage_log, killswitch, excl_stage>>
    /\ AppFrame

\* A thread of an ended process takes no step.
ProcessAlive == app_threads["event"].mode # "exited"

NextAppRun ==
    \/ SpawnUpdate
    \/ MainReturns
    \/ ProcessAlive /\ NextApp

SpecAppRun == InitAppRun /\ [][NextAppRun]_vars

(***************************************************************************)
(* EditorState: actions, undo and redo                                     *)
(***************************************************************************)
EditorFrame ==
    UNCHANGED <<worldVars, queryVars, regVars, raceVars, mergeVars, genVars, compVars,
                sysVars, appVars, bundleVars, iterVars, gpuVars, regRaceVars,
                winitVars, rendererVars, eguiVars, assetVars, typeDataVars>>

\* The actions performed in one run.
MaxActions == 2

EditorEntities == {1, 2}

EditorNames == {"a", "b"}

\* An action of the history. `old` is RenameEntity's old_name or
\* UpdateComponent's previous_fields, `new` is new_fields; `id` numbers the
\* actions and `named` remembers what end() wrote, neither is a field of the
\* structs.
EditorActionRec(id, kind, entity) ==
    [id |-> id, kind |-> kind, entity |-> entity, old |-> None, new |-> None,
     named |-> ""]

NameOf(ed, e) == IF e \in DOMAIN ed.names THEN Some(ed.names[e]) ELSE None

\* RenameEntity::begin.
RenameBegin(act, ed) == [act EXCEPT !.old = NameOf(ed, act.entity)]

\* RenameEntity::end: the buffer is taken, and left empty.
RenameEnd(act, ed) ==
    [ed EXCEPT !.names = MapPut(@, act.entity, ed.buffer), !.buffer = ""]

\* RenameEntity::undo.
RenameUndo(act, ed) ==
    IF act.old.some THEN [ed EXCEPT !.names = MapPut(@, act.entity, act.old.value)]
    ELSE [ed EXCEPT !.names = MapDrop(@, {act.entity})]

\* UpdateComponent::undo and ::redo: an error when the entity does not have
\* the component, else the stored fields are written.
UpdateWrite(act, ed, fields) ==
    IF ~ed.comp.some THEN [ok |-> FALSE, act |-> act, ed |-> ed]
    ELSE [ok |-> TRUE, act |-> act,
          ed |-> IF fields.some THEN [ed EXCEPT !.comp = fields] ELSE ed]

\* action.undo(state, world).
ActionUndo(act, ed) ==
    IF act.kind = "Rename" THEN [ok |-> TRUE, act |-> act, ed |-> RenameUndo(act, ed)]
    ELSE UpdateWrite(act, ed, act.old)

\* action.redo(state, world): the trait's default is begin then end;
\* UpdateComponent overrides it.
ActionRedo(act, ed) ==
    IF act.kind = "Rename"
    THEN [ok |-> TRUE, act |-> RenameBegin(act, ed),
          ed |-> RenameEnd(RenameBegin(act, ed), ed)]
    ELSE UpdateWrite(act, ed, act.new)

Front(seq) == SubSeq(seq, 1, Len(seq) - 1)

PushUndoneFirst(ed, act) == [ed EXCEPT !.undone = <<act>> \o @]

\* undo_history.push(action).
PushUndone(ed, act) == [ed EXCEPT !.undone = Append(@, act)]

\* action_history.push(action).
PushHistory(ed, act) == [ed EXCEPT !.history = Append(@, act)]

\* EditorState::undo: pop, action.undo(..)?, push.
Undo(ed) ==
    IF ed.history = <<>> THEN [ok |-> TRUE, ed |-> ed]
    ELSE LET act == ed.history[Len(ed.history)]
             r == ActionUndo(act, [ed EXCEPT !.history = Front(@)])
         IN IF r.ok THEN [ok |-> TRUE, ed |-> PushUndone(r.ed, r.act)]
            ELSE [ok |-> FALSE, ed |-> r.ed]

\* EditorState::redo: pop, action.redo(..)?, push.
Redo(ed) ==
    IF ed.undone = <<>> THEN [ok |-> TRUE, ed |-> ed]
    ELSE LET act == ed.undone[Len(ed.undone)]
             r == ActionRedo(act, [ed EXCEPT !.undone = Front(@)])
         IN IF r.ok THEN [ok |-> TRUE, ed |-> PushHistory(r.ed, r.act)]
            ELSE [ok |-> FALSE, ed |-> r.ed]

EditorCall(op, ok) == [op |-> op, result |-> IF ok THEN "ok" ELSE "err"]

\* begin_rename_entity(e): the buffer is filled with the current name and a
\* RenameEntity action begins, replacing one already in progress.
EditorBeginRename ==
    /\ editor.performed < MaxActions
    /\ \E e \in EditorEntities :
         LET buf == IF e \in DOMAIN editor.names THEN editor.names[e] ELSE ""
             ed == [editor EXCEPT !.buffer = buf, !.performed = @ + 1]
             act == RenameBegin(EditorActionRec(ed.performed, "Rename", e), ed)
         IN editor' = [ed EXCEPT !.in_progress = Some(act)]
    /\ editor_last' = EditorCall("begin", TRUE)
    /\ EditorFrame

\* The rename window's text edit writes the buffer.
EditorType ==
    /\ editor.in_progress.some
    /\ \E n \in EditorNames :
         /\ editor.buffer # n
         /\ editor' = [editor EXCEPT !.buffer = n]
    /\ editor_last' = EditorCall("type", TRUE)
    /\ EditorFrame

\* end_action::<RenameEntity>().
EditorEndRename ==
    /\ editor.in_progress.some
    /\ LET act == [editor.in_progress.value EXCEPT !.named = editor.buffer]
           ed == RenameEnd(act, [editor EXCEPT !.in_progress = None])
       IN editor' = PushHistory(ed, act)
    /\ editor_last' = EditorCall("end", TRUE)
    /\ EditorFrame

\* begin_action(UpdateComponent), an edit of the component to v, and
\* end_action::<UpdateComponent>(): begin fails without the component.
EditorUpdateComponent ==
    /\ editor.performed < MaxActions
    /\ \E v \in {0, 1} :
         IF ~editor.comp.some
         THEN /\ editor' = [editor EXCEPT !.performed = @ + 1]
              /\ editor_last' = EditorCall("update", FALSE)
         ELSE /\ v # editor.comp.value
              /\ LET ed == [editor EXCEPT !.performed = @ + 1, !.comp = Some(v)]
                     act == [EditorActionRec(ed.performed, "Update", 1)
                                EXCEPT !.old = editor.comp, !.new = Some(v)]
                 IN editor' = PushHistory(ed, act)
              /\ editor_last' = EditorCall("update", TRUE)
    /\ EditorFrame

\* The component is removed from the entity by some other system.
EditorRemoveComponent ==
    /\ editor.comp.some
    /\ editor' = [editor EXCEPT !.comp = None]
    /\ editor_last' = EditorCall("remove", TRUE)
    /\ EditorFrame

EditorUndo ==
    /\ editor' = Undo(editor).ed
    /\ editor_last' = EditorCall("undo", Undo(editor).ok)
    /\ EditorFrame

EditorRedo ==
    /\ editor' = Redo(editor).ed
    /\ editor_last' = EditorCall("redo", Redo(editor).ok)
    /\ EditorFrame

NextEditor ==
    \/ EditorBeginRename
    \/ EditorType
    \/ EditorEndRename
    \/ EditorUpdateComponent
    \/ EditorRemoveComponent
    \/ EditorUndo
    \/ EditorRedo

SpecEditor == InitStructure /\ [][NextEditor]_vars

(***************************************************************************)
(* Renderer: begin_frame, enqueue_command_buffer, end_frame                *)
(***************************************************************************)
RendererFrame ==
    UNCHANGED <<worldVars, queryVars, regVars, raceVars, mergeVars, genVars, compVars,
                sysVars, appVars, bundleVars, iterVars, gpuVars, regRaceVars,
                winitVars, editorVars, eguiVars, assetVars, typeDataVars>>

\* The command buffers enqueued and the surface textures acquired in a run.
MaxCommandBuffers == 4

MaxSurfaceTextures == 3

\* begin_frame: nothing while a frame is current; else the surface texture
\* is acquired (ok) and becomes the current frame, or the error is returned.
BeginFrame(r, ok) ==
    IF r.current_frame.some THEN r
    ELSE IF ok THEN [r EXCEPT !.current_frame = Some(r.acquired + 1),
                              !.acquired = @ + 1]
    ELSE r

\* enqueue_command_buffer: push.
EnqueueCommandBuffer(r) ==
    [r EXCEPT !.command_buffers = Append(@, r.enqueued + 1), !.enqueued = @ + 1]

\* An end_frame that submits the queued buffers and keeps them queued.
EndFrameKeepsQueue(r) ==
    IF ~r.current_frame.some THEN r
    ELSE [r EXCEPT !.current_frame = None,
                   !.submitted = @ \o r.command_buffers,
                   !.presented = @ + 1]

\* end_frame: nothing without a current frame; else the frame is taken, the
\* queued buffers are drained and submitted, and the texture is presented.
EndFrame(r) ==
    IF ~r.current_frame.some THEN r
    ELSE [r EXCEPT !.current_frame = None,
                   !.command_buffers = <<>>,
                   !.submitted = @ \o r.command_buffers,
                   !.presented = @ + 1]

RendererBeginFrame ==
    /\ renderer.acquired < MaxSurfaceTextures
    /\ \E ok \in BOOLEAN : renderer' = BeginFrame(renderer, ok)
    /\ renderer_last' = "begin_frame"
    /\ RendererFrame

RendererEnqueue ==
    /\ renderer.enqueued < MaxCommandBuffers
    /\ renderer' = EnqueueCommandBuffer(renderer)
    /\ renderer_last' = "enqueue"
    /\ RendererFrame

RendererEndFrame ==
    /\ renderer' = EndFrame(renderer)
    /\ renderer_last' = "end_frame"
    /\ RendererFrame

NextRenderer == RendererBeginFrame \/ RendererEnqueue \/ RendererEndFrame

SpecRenderer == InitStructure /\ [][NextRenderer]_vars

(***************************************************************************)
(* EguiContext: begin_frame, draw_if_ready, end_frame, render              *)
(***************************************************************************)
EguiFrame ==
    UNCHANGED <<worldVars, queryVars, regVars, raceVars, mergeVars, genVars, compVars,
                sysVars, appVars, bundleVars, iterVars, gpuVars, regRaceVars,
                winitVars, editorVars, rendererVars, assetVars, typeDataVars>>

\* The calls made on the context in one run.
MaxEguiCalls == 8

\* The calls of one tick, in order.
EguiTick == <<"begin_frame", "draw_if_ready", "end_frame", "render">>

\* Bookkeeping of a call: the run is ordered while every call so far was
\* the next one of its tick.
Called(g, op) ==
    [g EXCEPT !.op = op, !.ran = FALSE, !.calls = @ + 1,
              !.ordered = g.ordered /\ EguiTick[g.phase + 1] = op,
              !.phase = (g.phase + 1) % 4]

\* begin_frame: egui's pass is begun unless an output is pending.
CtxBeginFrame(g) ==
    IF ~g.full_output.some THEN [Called(g, "begin_frame") EXCEPT !.began = TRUE]
    ELSE Called(g, "begin_frame")

\* end_frame: the pass's output is stored unless one is pending.
CtxEndFrame(g) ==
    IF ~g.full_output.some
    THEN [Called(g, "end_frame") EXCEPT !.full_output = Some(g.made + 1),
                                        !.made = @ + 1, !.began = FALSE]
    ELSE Called(g, "end_frame")

\* A draw_if_ready that looks at the pending output only.
DrawIfNonePending(g) ==
    [Called(g, "draw_if_ready") EXCEPT !.ran = ~g.full_output.some]

\* draw_if_ready: weaver-core's context runs the closure when no output is
\* pending and the context is not locked; weaver-egui's context has no
\* lock, which is this one never locked.
DrawIfReady(g) ==
    [Called(g, "draw_if_ready") EXCEPT !.ran = ~g.full_output.some /\ ~g.locked]

\* render: a pending output is taken and drawn, else nothing.
CtxRender(g) ==
    IF ~g.full_output.some THEN Called(g, "render")
    ELSE [Called(g, "render") EXCEPT !.full_output = None, !.rendered = @ + 1]

EguiCall ==
    /\ egui.calls < MaxEguiCalls
    /\ egui' \in {CtxBeginFrame(egui), DrawIfReady(egui), CtxEndFrame(egui),
                  CtxRender(egui)}
    /\ EguiFrame

\* weaver-core's EguiContext::lock and ::unlock.
EguiLock ==
    /\ egui.calls < MaxEguiCalls
    /\ egui' = [egui EXCEPT !.locked = ~@, !.op = IF egui.locked THEN "unlock" ELSE "lock",
                            !.ran = FALSE]
    /\ EguiFrame

NextEgui == EguiCall \/ EguiLock

SpecEgui == InitStructure /\ [][NextEgui]_vars

(***************************************************************************)
(* AssetServer: load_mesh, load_material, load_texture, load_normal_map    *)
(***************************************************************************)
AssetFrame ==
    UNCHANGED <<worldVars, queryVars, regVars, raceVars, mergeVars, genVars, compVars,
                sysVars, appVars, bundleVars, iterVars, gpuVars, regRaceVars,
                winitVars, editorVars, rendererVars, eguiVars, typeDataVars>>

\* The ids allocated in one run.
MaxAssetIds == 3

\* Resolved paths.
AssetPaths == {"a.glb", "b.glb", "c.png"}

AssetKinds == {"mesh", "material", "texture", "normal_map"}

\* alloc_id: the id is next_id, which is incremented.
AllocId(s) == [s EXCEPT !.next_id = @ + 1]

\* The asset map a kind is kept in.
Holds(s, kind, id) ==
    CASE kind = "mesh" -> id \in s.meshes
      [] kind = "material" -> id \in s.materials
      [] OTHER -> id \in DOMAIN s.textures

\* The path is recorded under the id and the asset is stored in its map.
Store(s, kind, path, id) ==
    LET t == [s EXCEPT !.ids = MapPut(@, path, id)] IN
    CASE kind = "mesh" -> [t EXCEPT !.meshes = @ \cup {id}]
      [] kind = "material" -> [t EXCEPT !.materials = @ \cup {id}]
      [] OTHER -> [t EXCEPT !.textures = MapPut(@, id, kind)]

\* load_mesh, load_material, load_texture, load_normal_map: a path not in
\* ids gets an id and is loaded (a mesh or material file may fail to load,
\* after the id was allocated); a path in ids is looked up in the map of the
\* kind asked for, and the lookup is unwrapped.
Load(s, kind, path, loads) ==
    IF path \notin DOMAIN s.ids
    THEN IF loads \/ kind \in {"texture", "normal_map"}
         THEN [server |-> Store(AllocId(s), kind, path, s.next_id), result |-> "ok"]
         ELSE [server |-> AllocId(s), result |-> "err"]
    ELSE [server |-> s,
          result |-> IF Holds(s, kind, s.ids[path]) THEN "ok" ELSE "panic"]

AssetLoad ==
    /\ asset_last.result # "panic"
    /\ \E kind \in AssetKinds, path \in AssetPaths, loads \in BOOLEAN :
         LET r == Load(assets, kind, path, loads) IN
         /\ r.server.next_id <= MaxAssetIds
         /\ assets' = r.server
         /\ asset_last' = [op |-> kind, path |-> path, result |-> r.result]
    /\ AssetFrame

NextAssets == AssetLoad

SpecAssets == InitStructure /\ [][NextAssets]_vars

(***************************************************************************)
(* TypeRegistry: register, register_type_data, get_type_data               *)
(***************************************************************************)
TypeDataFrame ==
    UNCHANGED <<worldVars, queryVars, regVars, raceVars, mergeVars, genVars, compVars,
                sysVars, appVars, bundleVars, iterVars, gpuVars, regRaceVars,
                winitVars, editorVars, rendererVars, eguiVars, assetVars>>

ReflectTypes == {"T", "U"}

AuxTypes == {"D1", "D2", "D3"}

\* register::<T>(): a registration with no auxiliary data, unless T is
\* registered.
RegisterType(r, T) ==
    IF T \in DOMAIN r.types THEN r
    ELSE [r EXCEPT !.types = MapPut(@, T, EmptyMap)]

\* register_type_data::<T, D>(): D::from_type() is inserted into T's
\* type_aux_data under the TypeId of T.
RegisterTypeData(r, T, D) ==
    [r EXCEPT !.types[T] = MapPut(@, T, D), !.given = @ \cup {<<T, D>>}]

\* get_type_data::<T, D>(): the entry under the TypeId of T in T's
\* type_aux_data, downcast to D.
GetTypeData(r, T, D) ==
    IF T \notin DOMAIN r.types THEN None
    ELSE IF T \notin DOMAIN r.types[T] THEN None
    ELSE IF r.types[T][T] = D THEN Some(D)
    ELSE None

TypeDataCall(op, T, D, result) ==
    [op |-> op, type |-> T, data |-> D, result |-> result]

TypeRegister ==
    /\ \E T \in ReflectTypes :
         /\ type_registry' = RegisterType(type_registry, T)
         /\ type_data_last' = TypeDataCall("register", T, "-", None)
    /\ TypeDataFrame

TypeRegisterData ==
    /\ \E T \in DOMAIN type_registry.types, D \in AuxTypes :
         /\ type_registry' = RegisterTypeData(type_registry, T, D)
         /\ type_data_last' = TypeDataCall("register_type_data", T, D, None)
    /\ TypeDataFrame

TypeGetData ==
    /\ \E T \in ReflectTypes, D \in AuxTypes :
         type_data_last' =
             TypeDataCall("get_type_data", T, D, GetTypeData(type_registry, T, D))
    /\ UNCHANGED type_registry
    /\ TypeDataFrame

NextTypeData == TypeRegister \/ TypeRegisterData \/ TypeGetData

SpecTypeData == InitStructure /\ [][NextTypeData]_vars

(***************************************************************************)
(* Live guards, read off the live queries                                  *)
(***************************************************************************)
LiveParts ==
    UNION {{<<i, j>> : j \in DOMAIN queries[i].parts} : i \in DOMAIN queries}

Guards(slot, kind) ==
    {ij \in LiveParts :
        /\ queries[ij[1]].parts[ij[2]].kind = kind
        /\ slot \in Range(queries[ij[1]].parts[ij[2]].entries)}

\* A part of the shape asks for a slot that a live guard excludes.
Conflicts(shape) ==
    \E i \in DOMAIN shape.parts : \E e \in DOMAIN entities_components :
        LET p == shape.parts[i]
            slot == <<e, p.comp>>
        IN  /\ p.comp \in entities_components[e]
            /\ \/ Guards(slot, "Write") # {}
               \/ p.kind = "Write" /\ Guards(slot, "Read") # {}

ExclusiveGuards ==
    \A slot \in DOMAIN locks :
        /\ Cardinality(Guards(slot, "Write")) <= 1
        /\ Guards(slot, "Write") # {} => Guards(slot, "Read") = {}

ConflictPanics ==
    [][(last'.op = "query" /\ Conflicts(last'.shape))
        => (last'.outcome = "panic" /\ queries' = queries)]_vars

\* C1: every slot has at most one write guard and then no read guard, or
\* only read guards; constructing a Read or Write query against a live
\* conflicting guard panics and hands out no guard.
C1_BorrowExclusivity == []ExclusiveGuards /\ ConflictPanics

C1_Witness ==
    /\ last.op = "query"
    /\ last.outcome = "panic"
    /\ \E T \in Comps :
        /\ last.shape = Single("Write", T)
        /\ \E i \in DOMAIN queries :
            /\ queries[i].shape = Single("Write", T)
            /\ queries[i].entities # {}

TrackerMatchesGuards ==
    \A slot \in DOMAIN borrow_intent :
        /\ borrow_intent[slot].readers = Cardinality(Guards(slot, "Read"))
        /\ borrow_intent[slot].writer = (Guards(slot, "Write") # {})

WriteAfterDropSucceeds ==
    [][(/\ last'.op = "query"
        /\ \E T \in Comps : last'.shape = Single("Write", T)
        /\ ~Conflicts(last'.shape))
        => (last'.outcome = "ok" /\ Len(queries') = Len(queries) + 1)]_vars

Has(e, shape) ==
    /\ e \in DOMAIN entities_components
    /\ ShapeComps(shape) \subseteq entities_components[e]
    /\ shape.with \subseteq entities_components[e]
    /\ shape.without \cap entities_components[e] = {}

ExpectedEntities(shape) == {e \in DOMAIN entities_components : Has(e, shape)}

\* The world of the crate's query tests: {A,B,C}, {A,B}, {A,C}, {A,B,C}.
TestWorld ==
    entities_components =
        [e \in 0..3 |-> CASE e = 0 -> {"A", "B", "C"}
                          [] e = 1 -> {"A", "B"}
                          [] e = 2 -> {"A", "C"}
                          [] e = 3 -> {"A", "B", "C"}]

Yields(q, n) ==
    /\ Len(QueryIter(q)) = n
    /\ \A k \in DOMAIN QueryIter(q) : QueryIter(q)[k].some

\* C5: a static tuple query holds exactly the entities whose component set
\* is a superset of the requested set, and iter yields one item for each;
\* over the test world query::<(&A, &B, &C)>() yields 2 items.
C5_StaticQueryComplete ==
    \A i \in DOMAIN queries :
        queries[i].shape.origin = "static" =>
            /\ queries[i].entities = ExpectedEntities(queries[i].shape)
            /\ Yields(queries[i], Cardinality(ExpectedEntities(queries[i].shape)))
            /\ (TestWorld /\ queries[i].shape = StaticRead(Comps))
                => Yields(queries[i], 2)

C5_Witness ==
    /\ TestWorld
    /\ queries # <<>>
    /\ queries[1].shape = StaticRead(Comps)
    /\ Yields(queries[1], 2)

UntouchedBy(cs) ==
    \A slot \in DOMAIN borrow_intent :
        slot[2] \in cs => borrow_intent[slot] = Idle /\ locks[slot] = Idle

\* C6: query_filtered::<&T, With<U>>() holds exactly the entities that have
\* T and U (3 items for <&B, With<A>> over the test world) and takes no
\* read or write borrow on U.
C6_WithFilter ==
    \A i \in DOMAIN queries :
        (queries[i].shape.origin = "filtered" /\ queries[i].shape.with # {}) =>
            /\ queries[i].entities = ExpectedEntities(queries[i].shape)
            /\ Yields(queries[i], Cardinality(ExpectedEntities(queries[i].shape)))
            /\ (TestWorld /\ queries[i].shape = FilteredWith("B", "A"))
                => Yields(queries[i], 3)
            /\ UntouchedBy(queries[i].shape.with)

C6_Witness ==
    /\ TestWorld
    /\ queries # <<>>
    /\ queries[1].shape = FilteredWith("B", "A")
    /\ Yields(queries[1], 3)
    /\ borrow_intent[<<0, "A">>] = Idle
    /\ borrow_intent[<<0, "B">>].readers = 1

\* C7: query_filtered::<&T, Without<U>>() holds exactly the entities that
\* have T and do not have U (1 item for <&B, Without<C>> over the test world).
C7_WithoutFilter ==
    \A i \in DOMAIN queries :
        (queries[i].shape.origin = "filtered" /\ queries[i].shape.without # {}) =>
            /\ queries[i].entities = ExpectedEntities(queries[i].shape)
            /\ Yields(queries[i], Cardinality(ExpectedEntities(queries[i].shape)))
            /\ (TestWorld /\ queries[i].shape = FilteredWithout("B", "C"))
                => Yields(queries[i], 1)

C7_Witness ==
    /\ TestWorld
    /\ queries # <<>>
    /\ queries[1].shape = FilteredWithout("B", "C")
    /\ queries[1].entities = {1}
    /\ Yields(queries[1], 1)

\* The static query over the component types of a dynamic query, built on
\* the same world state.
StaticTwin(q) ==
    Construct(StaticRead(ShapeComps(q.shape)), entities_components, archetypes,
              registry, borrow_intent, locks).query

\* C8: a dynamic query built with read::<T>() or read_id(dynamic_id::<T>())
\* for each T of a set matches the same entities as the static query over
\* the same component types.
C8_DynamicStaticParity ==
    \A i \in DOMAIN queries :
        queries[i].shape.origin = "dynamic" =>
            /\ queries[i].entities = StaticTwin(queries[i]).entities
            /\ Len(QueryIter(queries[i])) = Len(QueryIter(StaticTwin(queries[i])))

C8_Witness ==
    /\ TestWorld
    /\ queries # <<>>
    /\ queries[1].shape.origin = "dynamic"
    /\ ShapeComps(queries[1].shape) = Comps
    /\ queries[1].entities = {0, 3}
    /\ StaticTwin(queries[1]).entities = {0, 3}

\* C9: query.get(entity) returns an item exactly when the entity is in the
\* query's matched set, and the item holds that entity's own components;
\* otherwise, also for an entity that does not exist, it returns None.
C9_GetMatchesMembership ==
    (got # NoGot /\ queries # <<>>) =>
        LET q == queries[1] IN
        /\ got.item.some <=> Has(got.entity, q.shape)
        /\ got.item.some =>
            \A k \in DOMAIN q.parts :
                got.item.value[k] = <<got.entity, q.shape.parts[k].comp>>

C9_Witness ==
    /\ TestWorld
    /\ queries # <<>>
    /\ queries[1].shape = StaticRead(Comps)
    /\ got.entity = 3
    /\ got.item = Some(<<<<3, "A">>, <<3, "B">>, <<3, "C">>>>)

C9_WitnessAbsent ==
    /\ TestWorld
    /\ queries # <<>>
    /\ queries[1].shape = FilteredWith("B", "A")
    /\ got.entity = 2
    /\ got.item = None

RaceHolders(slot) == {t \in Threads : slot \in Range(threads[t].entries)}

RaceOver == \A t \in Threads : threads[t].pc \in {"done", "panicked"}

RaceContended ==
    \E e \in DOMAIN entities_components : race_comp \in entities_components[e]

RaceSafe ==
    /\ \A slot \in DOMAIN locks : Cardinality(RaceHolders(slot)) <= 1
    /\ (RaceOver /\ RaceContended) =>
        \E t \in Threads :
            /\ threads[t].pc = "done"
            /\ \A e \in DOMAIN entities_components :
                race_comp \in entities_components[e] =>
                    e \in DOMAIN threads[t].entries
            /\ \A u \in Threads \ {t} : threads[u].pc = "panicked"

\* C3: of two threads that construct Write queries over the same entities
\* at most one holds a guard of any slot; exactly one construction
\* succeeds and the other panics; and both constructions come to an end.
C3_RaceFree ==
    /\ []RaceSafe
    /\ (race_comp # "-") ~> RaceOver

C3_Witness ==
    /\ RaceOver
    /\ RaceContended
    /\ threads[2].pc = "done"
    /\ threads[1].pc = "panicked"
    /\ Cardinality(DOMAIN threads[2].entries) >= 2

\* C10: every get_static call for a type returns the same id, whatever
\* get_static, get_named and create calls happen in between.
C10_GetStaticStable ==
    \A T \in DOMAIN issued :
        \A k \in DOMAIN issued[T] :
            /\ issued[T][k] = issued[T][1]
            /\ issued[T][k] = registry.static_ids[T]

C10_Witness ==
    /\ Len(Calls(TypeName("A"))) = 2
    /\ registry.static_ids[TypeName("A")] = FirstFree
    /\ registry.next_id = FirstFree + MaxMinted
    /\ <<"game", "A">> \in DOMAIN registry.static_ids
    /\ registry.named_ids[<<"A">>] # FirstFree

(***************************************************************************)
(* Registry: names, split and merge                                        *)
(***************************************************************************)
\* C11: every get_named call for a name returns the same id, whatever
\* get_named and get_static calls happen in between, also a get_static for
\* a type whose short type name is that name.
C11_GetNamedStable ==
    \A n \in DOMAIN issued_named :
        \A k \in DOMAIN issued_named[n] : issued_named[n][k] = issued_named[n][1]

HeldIds(r) == Range(r.static_ids) \cup Range(r.named_ids)

\* C12: the next id the registry mints is greater than every id it has
\* minted or holds in its maps, and no id is held by two types or by two
\* names.
C12_MonotoneIds ==
    /\ \A id \in minted \cup HeldIds(registry) : id < registry.next_id
    /\ \A T, U \in DOMAIN registry.static_ids :
        T # U => registry.static_ids[T] # registry.static_ids[U]
    /\ \A n, m \in DOMAIN registry.named_ids :
        n # m => registry.named_ids[n] # registry.named_ids[m]

\* C13: a merge leaves every id the registry held for a type or a name as
\* it was.
C13_MergeKeepsIds ==
    [][last'.op = "merge" =>
        /\ \A T \in DOMAIN registry.static_ids :
            registry'.static_ids[T] = registry.static_ids[T]
        /\ \A n \in DOMAIN registry.named_ids :
            registry'.named_ids[n] = registry.named_ids[n]]_vars

\* C14: right after split the new registry answers get_static and
\* get_named for everything the parent has registered with the parent's id
\* and mints nothing, and split leaves the parent as it was.
C14_SplitAgrees ==
    [][last'.op = "split" =>
        /\ registry' = registry
        /\ \A T \in DOMAIN registry.static_ids :
            GetStatic(other', T) = [reg |-> other', id |-> registry.static_ids[T]]
        /\ \A n \in DOMAIN registry.named_ids :
            GetNamed(other', n) = [reg |-> other', id |-> registry.named_ids[n]]]_vars

C14_Witness ==
    /\ last.op = "split"
    /\ TypeName("A") \in DOMAIN registry.static_ids
    /\ <<"Health">> \in DOMAIN registry.named_ids
    /\ other.static_ids[TypeName("A")] = registry.static_ids[TypeName("A")]
    /\ other.named_ids[<<"Health">>] = registry.named_ids[<<"Health">>]
    /\ other.next_id = FirstFree + MaxMergeMinted

TypesOf(list) == {list[k].type : k \in DOMAIN list}

\* The step removes type T from entity e right after the step that added it.
RoundTrip ==
    /\ comp_last.op = "add"
    /\ comp_last'.op = "remove"
    /\ comp_last'.entity = comp_last.entity
    /\ comp_last'.type = comp_last.type

\* The entity's components are again what they were before the add.
Restored ==
    EntryOf(components', comp_last.entity) = comp_last.before

\* C16 as stated: for every entity and component type, add_component
\* followed at once by remove_component restores the entity's components.
C16_RoundTripAlways == [][RoundTrip => Restored]_vars

\* C16: for an entity that has no component of type C, add_component::<C>
\* followed at once by remove_component::<C> restores the entity's
\* component set and leaves every other component value unchanged.
C16_RoundTripWhenAbsent ==
    [][(RoundTrip /\ comp_last.type \notin TypesOf(comp_last.before)) => Restored]_vars

C16_Witness ==
    /\ comp_last.op = "remove"
    /\ comp_last.entity = 0
    /\ comp_last.type = "B"
    /\ comp_last.before = <<[type |-> "A", value |-> 2]>>
    /\ EntryOf(components, 0) = <<[type |-> "A", value |-> 2]>>

Others(list, T) == SelectSeq(list, LAMBDA c : c.type # T)

\* C17: add_component::<T>(e, v) and remove_component::<T>(e) leave every
\* component of another type on e, and every component of every other
\* entity, as it was.
C17_StructuralFrame ==
    [][comp_last'.op \in {"add", "remove"} =>
        /\ Others(EntryOf(components', comp_last'.entity), comp_last'.type)
             = Others(EntryOf(components, comp_last'.entity), comp_last'.type)
        /\ \A e \in (DOMAIN components \cup DOMAIN components') \ {comp_last'.entity} :
            EntryOf(components', e) = EntryOf(components, e)]_vars

C17_Witness ==
    /\ comp_last.op = "add"
    /\ comp_last.entity = 1
    /\ comp_last.type = "B"
    /\ EntryOf(components, 0) = <<[type |-> "B", value |-> 1]>>
    /\ EntryOf(components, 1) = <<[type |-> "A", value |-> 2], [type |-> "B", value |-> 2]>>

Lockable == SelectSeq(update.list, LAMBDA s : s \notin update.skipped)

InTickOrder ==
    \A k \in DOMAIN stage_log : stage_log[k] = TickOrder[((k - 1) % Len(TickOrder)) + 1]

\* C18: within one tick the stages run in the fixed order PreUpdate, Update,
\* PostUpdate, Ui, PreRender, Render, PostRender, each exactly once, and no
\* stage starts while another stage is still running.
C18_FixedStageOrder ==
    /\ InTickOrder
    /\ Cardinality({t \in AppThreads : app_threads[t].stage # "-"}) <= 1

C21_FailureAbortsStage ==
    /\ [](update.pc \in {"running", "done"} => Range(update.ran) \cap poisoned = {})
    /\ [](update.pc = "panicked" =>
            /\ update.ran # <<>>
            /\ update.ran[Len(update.ran)] = update.list[update.i]
            /\ update.list[update.i] \in poisoned
            /\ \A k \in (update.i + 1)..Len(update.list) :
                  update.list[k] \notin Range(update.ran))
    /\ [][update.pc = "panicked" => update'.ran \in {update.ran, <<>>}]_vars

\* The first of three systems failed: two later systems were not run.
C21_Witness ==
    /\ update.pc = "panicked"
    /\ update.list = <<1, 2, 3>>
    /\ update.ran = <<1>>

(***************************************************************************)
(* Lookups of entities that do not exist                                   *)
(***************************************************************************)
\* C22: query.get for an entity that was never allocated (or is despawned)
\* does not return None, the value it returns for a live entity that lacks
\* a requested component.
C22_MissingEntityDistinct ==
    (got # NoGot /\ queries # <<>> /\ got.entity \notin DOMAIN entities_components)
        => got.item # None

(***************************************************************************)
(* Bundles and archetype identity                                          *)
(***************************************************************************)
\* C23: two bundles of one impl that list the same component types, in
\* whatever order, produce the same component-type id list.
C23_OrderIndependentIds ==
    (/\ bundle_prev.impl = bundle_last.impl
     /\ Range(bundle_prev.fields) = Range(bundle_last.fields))
        => bundle_prev.ids = bundle_last.ids

\* The same, for the derive macro alone.
DeriveOrderIndependent ==
    (/\ bundle_prev.impl = "derive" /\ bundle_last.impl = "derive"
     /\ Range(bundle_prev.fields) = Range(bundle_last.fields))
        => bundle_prev.ids = bundle_last.ids

(***************************************************************************)
(* Shared readers                                                          *)
(***************************************************************************)
HasComp(T) == {e \in DOMAIN entities_components : T \in entities_components[e]}

LiveRead(qs, T) == \E i \in DOMAIN qs : qs[i].shape = Single("Read", T)

LiveWrite(qs, T) == \E i \in DOMAIN qs : qs[i].shape = Single("Write", T)

\* C24: constructing a Read<T> query while another Read<T> query is live
\* (and no Write<T> query is) succeeds without a panic, and every live
\* Read<T> query holds every entity that has T.
C24_ReadersShare ==
    /\ [](\A i \in DOMAIN queries : \A T \in Comps :
            queries[i].shape = Single("Read", T) => queries[i].entities = HasComp(T))
    /\ [][\A T \in Comps :
            (/\ last'.op = "query"
             /\ last'.shape = Single("Read", T)
             /\ LiveRead(queries, T)
             /\ ~LiveWrite(queries, T))
            => (/\ last'.outcome = "ok"
                /\ Len(queries') = Len(queries) + 1
                /\ queries'[Len(queries')].entities = HasComp(T))]_vars

\* Two Read<A> queries are live over two entities that have A, and the
\* second was constructed last.
C24_Witness ==
    /\ Len(queries) = 2
    /\ \A i \in DOMAIN queries :
          queries[i].shape = Single("Read", "A") /\ queries[i].entities = {0, 1}
    /\ last = [op |-> "query", shape |-> Single("Read", "A"), outcome |-> "ok"]

(***************************************************************************)
(* iter() called repeatedly                                                *)
(***************************************************************************)
ItemEntities(run) == {run[k].value[1][1] : k \in DOMAIN run}

\* C25: every iter() call on a live query, made after the iterator before it
\* was consumed, yields the same sequence: one item per matched entity, in
\* ascending entity order, and no call fails.
C25_IterRestartable ==
    /\ iter.pc # "panicked"
    /\ \A k \in DOMAIN iter_runs :
        LET run == iter_runs[k] IN
        /\ Len(run) = Cardinality(ExpectedEntities(queries[1].shape))
        /\ ItemEntities(run) = ExpectedEntities(queries[1].shape)
        /\ \A i, j \in DOMAIN run : i < j => run[i].value[1][1] < run[j].value[1][1]
        /\ \A i \in DOMAIN run : run[i].some
        /\ run = iter_runs[1]

\* A Write<A> query over two entities with A was iterated to the end twice.
C25_Witness ==
    /\ Len(iter_runs) >= 2
    /\ queries # <<>>
    /\ queries[1].shape = Single("Write", "A")
    /\ Len(iter_runs[2]) = 2

(***************************************************************************)
(* Queries that match nothing                                              *)
(***************************************************************************)
\* A query that should match no entity has none, iterates to nothing and
\* was constructed without a failure.
EmptyIsOk ==
    \A i \in DOMAIN queries :
        ExpectedEntities(queries[i].shape) = {} =>
            /\ queries[i].entities = {}
            /\ QueryIter(queries[i]) = <<>>
            /\ \A k \in DOMAIN iter_runs : iter_runs[k] = <<>>
            /\ last.op = "query" => last.outcome = "ok"

\* Every entity is in the one archetype of its component set, emptied
\* archetypes included.
InOwnArchetype ==
    /\ \A e \in DOMAIN entities_components :
          \E a \in archetypes :
              a.components = entities_components[e] /\ ContainsEntity(a, e)
    /\ \A a, b \in archetypes : a.components = b.components => a = b

\* C26: a query with no matching entity yields an empty result and does not
\* fail, whether no archetype holds the requested type or the matching
\* archetype was emptied; an archetype, once created, keeps its component
\* set when its entities are removed and takes later entities of that set.
C26_EmptyMatchIsEmpty ==
    /\ [](EmptyIsOk /\ InOwnArchetype /\ iter.pc # "panicked")
    /\ [][\A a \in archetypes : \E b \in archetypes' :
            /\ b.components = a.components
            /\ b.component_names = a.component_names]_vars

\* The archetype {A, B} was emptied by despawn and a filtered query over
\* it, constructed without failure, was iterated to nothing.
C26_Witness ==
    /\ \E a \in archetypes : a.components = {"A", "B"} /\ a.entities = {}
    /\ queries # <<>>
    /\ queries[1].shape = FilteredWith("A", "B")
    /\ queries[1].entities = {}
    /\ iter_runs = << <<>> >>

\* No archetype holds B, and a Read<B> query is empty and was iterated.
C26_WitnessNoArchetype ==
    /\ archetypes # {}
    /\ \A a \in archetypes : ~ContainsComponent(a, "B")
    /\ queries # <<>>
    /\ queries[1].shape = Single("Read", "B")
    /\ iter_runs = << <<>> >>

(***************************************************************************)
(* The acceptance test's world under query::<(&A, &B)>()                   *)
(***************************************************************************)
OverTestWorld(cs) ==
    /\ TestWorld
    /\ queries # <<>>
    /\ queries[1].shape = StaticRead(cs)

\* C27 as stated: over {A,B,C}, {A,B}, {A,C}, {A,B,C} the query
\* query::<(&A, &B)>() yields exactly 2 matches.
C27_TwoMatches == OverTestWorld({"A", "B"}) => Yields(queries[1], 2)

\* C27: over {A,B,C}, {A,B}, {A,C}, {A,B,C} the query query::<(&A, &B)>()
\* yields exactly 3 matches, the entities 0, 1 and 3 whose component set is a
\* superset of {A, B}; query::<(&A, &B, &C)>() yields exactly 2.
C27_ThreeMatches ==
    /\ OverTestWorld({"A", "B"}) =>
        /\ Yields(queries[1], 3)
        /\ queries[1].entities = {0, 1, 3}
    /\ OverTestWorld({"A", "B", "C"}) =>
        /\ Yields(queries[1], 2)
        /\ queries[1].entities = {0, 3}

C27_Witness ==
    /\ OverTestWorld({"A", "B"})
    /\ Len(QueryIter(queries[1])) = 3
    /\ last.outcome = "ok"

(***************************************************************************)
(* LazyGpuHandle                                                           *)
(***************************************************************************)
\* C28: after the first successful lazy_init of a handle, every later
\* lazy_init on it or on a clone of it succeeds with the same id and
\* creates and inserts no GPU resource, whatever update and destroy calls
\* came between.
C28_LazyInitIdempotent ==
    [][(lazy_last'.op = "init" /\ lazy_last'.again) =>
        /\ lazy_last'.result = "ok"
        /\ lazy_last'.id = lazy_first[lazy_names[lazy_last'.handle]]
        /\ DOMAIN gpu_resources' = DOMAIN gpu_resources
        /\ gpu_resources' = gpu_resources
        /\ lazy_cells' = lazy_cells]_vars

\* The clone of an initialised handle was initialised again, after the
\* handle was destroyed, and got the first id.
C28_Witness ==
    /\ lazy_last.op = "init"
    /\ lazy_last.again
    /\ lazy_last.handle = 2
    /\ lazy_names = <<1, 1>>
    /\ lazy_last.id = lazy_first[1]
    /\ gpu_resources = (0 :> "Destroyed")

(***************************************************************************)
(* One query that reads and writes the same component type                 *)
(***************************************************************************)
\* The shape asks for T both by & and by &mut.
ReadsAndWrites(shape, T) ==
    /\ \E i \in DOMAIN shape.parts : shape.parts[i] = Part("Read", T)
    /\ \E j \in DOMAIN shape.parts : shape.parts[j] = Part("Write", T)

\* C29: a query that asks for one component type for reading and for
\* writing panics at construction when an entity has that component and
\* hands out nothing; no live query holds a read entry and a write entry of
\* one slot.
C29_ReadWriteSameRejected ==
    /\ [](\A q \in DOMAIN queries : \A i, j \in DOMAIN queries[q].parts :
            (queries[q].parts[i].kind = "Read" /\ queries[q].parts[j].kind = "Write")
                => Range(queries[q].parts[i].entries)
                       \cap Range(queries[q].parts[j].entries) = {})
    /\ [][\A T \in MixedComps :
            (/\ last'.op = "query"
             /\ ReadsAndWrites(last'.shape, T)
             /\ HasComp(T) # {})
            => (/\ last'.outcome = "panic"
                /\ queries' = queries
                /\ borrow_intent' = borrow_intent
                /\ locks' = locks)]_vars

\* (&A, &mut A) was asked for over a world with two entities that have A
\* and no other query live: it panicked and nothing is held.
C29_Witness ==
    /\ last.op = "query"
    /\ last.shape.parts = <<Part("Read", "A"), Part("Write", "A")>>
    /\ last.outcome = "panic"
    /\ HasComp("A") = {0, 1}
    /\ queries = <<>>
    /\ \A s \in DOMAIN borrow_intent : borrow_intent[s] = Idle /\ locks[s] = Idle

(***************************************************************************)
(* get_static called by two threads at once                                *)
(***************************************************************************)
GsOver == \A t \in {1, 2} : gs_threads[t].pc \in {"done", "panicked"}

GsSameType == gs_threads[1].type = gs_threads[2].type

\* No get_static call panics on a borrow of the registry's cells.
GsNoPanic == \A t \in {1, 2} : gs_threads[t].pc # "panicked"

\* Two calls for one type that both returned hold one id, and one id was
\* minted.
GsOneId ==
    (GsSameType /\ \A t \in {1, 2} : gs_threads[t].pc = "done") =>
        /\ gs_threads[1].id = gs_threads[2].id
        /\ registry.next_id = FirstFree + 1

\* C30: two threads calling get_static::<T>() at once for a type not yet
\* registered both return the same id, one id is minted, and neither call
\* panics on a borrow of the registry's cells.
C30_ConcurrentGetStatic == GsNoPanic /\ GsOneId

(***************************************************************************)
(* WinitRunner::run: the order of the stages                               *)
(***************************************************************************)
RECURSIVE Frames(_)
Frames(k) == IF k = 0 THEN <<>> ELSE TickOrder \o Frames(k - 1)

\* A whole run with k frames.
WinitRun(k) == PhaseStages("init") \o Frames(k) \o PhaseStages("shutdown")

IsPrefixOf(s, t) == Len(s) <= Len(t) /\ SubSeq(t, 1, Len(s)) = s

StageCount(s) == Cardinality({i \in DOMAIN winit.log : winit.log[i] = s})

\* C31: run() starts PreInit, Init, PostInit once each in that order before
\* the event loop, PreShutdown, Shutdown, PostShutdown once each in that
\* order after the event loop has returned, and the frame stages only in
\* between; every stage has ended before the next begins; a run that
\* returns Ok has run all six; an init stage that fails ends the run with
\* Err and is the last stage run.
C31_WinitStageOrder ==
    /\ \E k \in 0..MaxFrames : IsPrefixOf(winit.log, WinitRun(k))
    /\ winit.ended = Len(winit.log) - (IF winit.running THEN 1 ELSE 0)
    /\ "PreShutdown" \in Range(winit.log) => winit.exiting
    /\ winit.result = "Ok" =>
         \A s \in Range(PhaseStages("init")) \cup Range(PhaseStages("shutdown")) :
            StageCount(s) = 1
    /\ winit.failed \in Range(PhaseStages("init")) =>
         /\ winit.pc = "returned"
         /\ winit.result = "Err"
         /\ ~winit.running
         /\ winit.log[Len(winit.log)] = winit.failed

C31_Witness ==
    /\ winit.result = "Ok"
    /\ winit.frames >= 1
    /\ winit.log = WinitRun(winit.frames)

C31_WitnessInitFails ==
    /\ winit.failed = "Init"
    /\ winit.log = <<"PreInit", "Init">>

(***************************************************************************)
(* App::run: Startup first, Shutdown last                                  *)
(***************************************************************************)
\* The update thread has run Shutdown to its end.
ShutdownRan == app_threads["update"].mode = "done"

\* Startup has returned before the update thread exists.
StartupFirst ==
    app_threads["event"].mode = "startup" =>
        /\ app_threads["update"].mode = "unspawned"
        /\ stage_log = <<>>

\* No stage of the tick starts once the update thread has left its loop.
NoUpdateAfterShutdown ==
    [][app_threads["update"].mode \in {"shutdown", "done"} => stage_log' = stage_log]_vars

\* C32: Startup completes before the first PreUpdate, and a run that has
\* ended after LoopExiting has run Shutdown exactly once, with no update
\* stage after it.
C32_ShutdownRunsOnce == app_threads["event"].mode = "exited" => ShutdownRan

C32_StartupAndNoLateUpdate == []StartupFirst /\ NoUpdateAfterShutdown

(***************************************************************************)
(* EditorState: undo and redo move actions between the two histories       *)
(***************************************************************************)
Ids(seq) == [i \in DOMAIN seq |-> seq[i].id]

ReverseSeq(seq) == [i \in DOMAIN seq |-> seq[Len(seq) + 1 - i]]

\* The performed actions, oldest first, then the undone ones, last undone
\* first.
Timeline(ed) == Ids(ed.history) \o ReverseSeq(Ids(ed.undone))

IsUndo == editor_last'.op = "undo" /\ editor_last'.result = "ok"

IsRedo == editor_last'.op = "redo" /\ editor_last'.result = "ok"

RedoneRename ==
    /\ editor_last'.op = "redo"
    /\ editor_last'.result = "ok"
    /\ editor.undone # <<>>
    /\ editor.undone[Len(editor.undone)].kind = "Rename"

\* C34: redo of an undone RenameEntity that had renamed e to N sets e's name
\* to N again.
C34_RenameRoundTrip ==
    [][RedoneRename =>
         LET act == editor.undone[Len(editor.undone)] IN
         NameOf(editor', act.entity) = Some(act.named)]_vars

\* undo of a RenameEntity restores the name e had when the action began.
C34_UndoRestores ==
    [][(/\ IsUndo
        /\ editor.history # <<>>
        /\ editor.history[Len(editor.history)].kind = "Rename") =>
         LET act == editor.history[Len(editor.history)] IN
         NameOf(editor', act.entity) = act.old]_vars

(***************************************************************************)
(* An action whose undo or redo fails                                      *)
(***************************************************************************)
\* C35: an undo or redo that returns the action's error leaves both
\* histories as they were.
C35_FailureKeepsHistories ==
    [][(editor_last'.op \in {"undo", "redo"} /\ editor_last'.result = "err") =>
         /\ editor'.history = editor.history
         /\ editor'.undone = editor.undone]_vars

(***************************************************************************)
(* LazyGpuHandle after destroy                                             *)
(***************************************************************************)
\* destroy() has been called on the status of cell c: a pending status
\* became Destroyed, a ready one had its GpuHandle marked destroyed.
LazyDestroyed(c) ==
    \/ lazy_cells[c].tag = "Destroyed"
    \/ lazy_cells[c].tag = "Ready" /\ gpu_resources[lazy_cells[c].id] = "Destroyed"

\* C36: every lazy_init on a LazyGpuHandle that destroy() was called on
\* returns an error.
C36_InitAfterDestroyFails ==
    [][(/\ lazy_last'.op = "init"
        /\ LazyDestroyed(lazy_names[lazy_last'.handle])) =>
         lazy_last'.result = "err"]_vars

\* A destroyed LazyGpuHandle stays destroyed, whatever is called on it.
C36_StaysDestroyed ==
    [][\A c \in DOMAIN lazy_cells : LazyDestroyed(c) => LazyDestroyed(c)']_vars

(***************************************************************************)
(* Renderer: what end_frame submits                                        *)
(***************************************************************************)
\* Every buffer enqueued so far is either submitted or still queued, once,
\* and in the order of enqueueing.
EachBufferOnce ==
    renderer.submitted \o renderer.command_buffers =
        [i \in 1..renderer.enqueued |-> i]

\* C37: every enqueued command buffer is submitted exactly once and in
\* enqueue order, by the next end_frame that finds a current frame; that
\* end_frame leaves no current frame and an empty queue; an end_frame
\* without a current frame changes nothing; a begin_frame while a frame is
\* current acquires no surface texture.
C37_SubmitOnceInOrder ==
    /\ []EachBufferOnce
    /\ [][/\ (renderer_last' = "end_frame" /\ renderer.current_frame.some) =>
               /\ renderer'.submitted = renderer.submitted \o renderer.command_buffers
               /\ renderer'.command_buffers = <<>>
               /\ renderer'.current_frame = None
          /\ (renderer_last' = "end_frame" /\ ~renderer.current_frame.some) =>
               renderer' = renderer
          /\ renderer_last' # "end_frame" => renderer'.submitted = renderer.submitted
          /\ (renderer_last' = "begin_frame" /\ renderer.current_frame.some) =>
               renderer' = renderer]_vars

\* Buffers enqueued before and after begin_frame were submitted together by
\* the second frame's end_frame.
C37_Witness ==
    /\ renderer_last = "end_frame"
    /\ renderer.presented = 2
    /\ renderer.submitted = <<1, 2, 3>>
    /\ renderer.command_buffers = <<>>
    /\ renderer.current_frame = None

(***************************************************************************)
(* EguiContext: one pending output                                         *)
(***************************************************************************)
EguiPending == egui.full_output.some

\* At most one output is pending: what end_frame stored and render has not
\* taken yet.
OneOutput == egui.made - egui.rendered = (IF EguiPending THEN 1 ELSE 0)

\* end_frame stores only when none is pending, begin_frame does nothing
\* while one is pending, only render clears it.
OutputSteps ==
    /\ egui'.op = "end_frame" =>
         IF EguiPending THEN egui'.full_output = egui.full_output
         ELSE egui'.full_output = Some(egui.made + 1)
    /\ (egui'.op = "begin_frame" /\ EguiPending) =>
         egui'.began = egui.began /\ egui'.full_output = egui.full_output
    /\ (EguiPending /\ ~egui'.full_output.some) => egui'.op = "render"

\* The statement as it reads without the lock: the closure runs exactly
\* when no output is pending, hence in every tick of an ordered run.
C38_RunsIffNonePending ==
    [][/\ OutputSteps
       /\ egui'.op = "draw_if_ready" => (egui'.ran <=> ~EguiPending)
       /\ (egui'.op = "draw_if_ready" /\ egui'.ordered) => egui'.ran]_vars

\* C38: the context holds at most one finished output; end_frame stores
\* only when none is pending, begin_frame is a no-op while one is pending,
\* only render clears it; draw_if_ready runs its closure exactly when no
\* output is pending and the context is not locked; so in a run of ordered
\* ticks with the context unlocked the closure runs in every tick.
C38_RunsIffNonePendingUnlocked ==
    /\ []OneOutput
    /\ [][/\ OutputSteps
          /\ egui'.op = "draw_if_ready" =>
               (egui'.ran <=> (~EguiPending /\ ~egui.locked))
          /\ (egui'.op = "draw_if_ready" /\ egui'.ordered /\ ~egui.locked) =>
               egui'.ran]_vars

\* The closure has run in the second of two ordered ticks.
C38_Witness ==
    /\ egui.op = "draw_if_ready"
    /\ egui.ordered
    /\ egui.calls = 6
    /\ egui.rendered = 1
    /\ egui.ran

(***************************************************************************)
(* AssetServer: ids of paths and the lookups of the load functions         *)
(***************************************************************************)
\* C39: the lookup a load function unwraps never misses: whenever the path
\* is in the id map, the asset map of the kind asked for holds its id.
C39_LookupNeverMisses == asset_last.result # "panic"

\* Distinct paths have distinct ids, every id was allocated, and a load of a
\* path that is in the id map allocates nothing.
C39_OneIdPerPath ==
    /\ [](\A p, q \in DOMAIN assets.ids :
            /\ assets.ids[p] < assets.next_id
            /\ p # q => assets.ids[p] # assets.ids[q])
    /\ [][\A p \in DOMAIN assets.ids :
            /\ p \in DOMAIN assets'.ids
            /\ assets'.ids[p] = assets.ids[p]
            /\ asset_last'.path = p => assets'.next_id = assets.next_id]_vars

(***************************************************************************)
(* TypeRegistry: auxiliary data per (type, data type)                      *)
(***************************************************************************)
\* C40: get_type_data::<T, D>() returns the D value for every pair (T, D)
\* that register_type_data was called with, whatever other data types were
\* registered for T afterwards.
C40_TypeDataPerPair ==
    [][(/\ type_data_last'.op = "get_type_data"
        /\ <<type_data_last'.type, type_data_last'.data>> \in type_registry.given) =>
         type_data_last'.result = Some(type_data_last'.data)]_vars

\* The data type registered last for T is the one get_type_data returns.
C40_LastRegisteredWins ==
    [][(/\ type_data_last.op = "register_type_data"
        /\ type_data_last'.op = "get_type_data"
        /\ type_data_last'.type = type_data_last.type
        /\ type_data_last'.data = type_data_last.data) =>
         type_data_last'.result = Some(type_data_last.data)]_vars

====
